---- MODULE Spec2Model ----
(***************************************************************************)
(* Sphere++ application core: Application (init / run / destroy, watchdog, *)
(* update notifications, Azure IoT Central connection with retry) and the  *)
(* Timer it uses, as a state machine.                                      *)
(*                                                                         *)
(* The main flow executes init(), run() and destroy() one platform call    *)
(* at a time, so that the process signals (SIGTERM, SIGALRM) can be        *)
(* delivered between any two of them.  A signal handler runs to completion *)
(* on top of the interrupted main flow and is one atomic action.           *)
(***************************************************************************)
EXTENDS Integers, Sequences, FiniteSets, TLC

----------------------------------------------------------------------------
(* Program constants *)

k_defaultWatchdogPeriod == 60
k_defaultIotMaxRetryInterval == 120
k_initialIotRetryInterval == 10
k_defaultKeepalivePeriod == 30
\* a uint32_t is two 16-bit halves: arithmetic on it is modulo 2^32
HALF == 65536
\* seconds to microseconds factor used when arming the retry timer
MICROS == 1000000
\* Timer::m_timerFd before init() and after destroy()
NoFd == -1
\* the descriptor timerfd_create() hands out
TimerFd == 3

(* Bounds of the model *)

\* invocations of a timer's callback that are told apart
MaxCalls == 2

\* event loops EventLoop_Create() may hand out in one run
MaxLoops == 2
\* connection handles the provisioning call may hand out in one run
MaxHandles == 2
\* the failed-attempt counter saturates here
MaxFail == 4

\* the largest capacity of a vector
MaxCapacity == 3

NULL == 0
THIS == 1

\* the elements a vector holds, and what a caller's buffer may contain
Elems == {1, 2}
\* a null m_array
NoArray == <<>>
\* no vector constructed yet
NoVector == [m_array |-> NoArray, m_capacity |-> 0, m_fixedCapacity |-> TRUE,
             m_count |-> 0, m_first |-> 0, m_last |-> 0]

FeatureNames == {"UpdateNotification", "TimeSync", "Watchdog", "IoTCentral", "Keepalive"}

\* feature bitmasks passed to init()
FeatureSets == SUBSET FeatureNames

\* watchdog periods passed to init() and setWatchdogPeriod()
WatchdogPeriods == {0, 30}
\* the periods handed to setWatchdogPeriod()
NewWatchdogPeriods == {0, 45}
\* the seconds that pass in one step of the clock
TickSteps == {15, 30}
\* keepalive periods passed to init() and setKeepalivePeriod()
KeepalivePeriods == {0, 15}
\* ceilings passed to setMaxRetryInterval()
MaxRetryIntervals == {0, 50, 65536}
\* scope ids passed to init(); NoScope is the null pointer
NoScope == "null"
ScopeIds == {NoScope, "abc123"}

\* a test that any set bit satisfies
isSetAny(features, f) == features # {}

isSet(features, f) == f \in features

----------------------------------------------------------------------------
(* uint32_t values that may wrap are records [hi, lo] of 16-bit halves, so  *)
(* that every intermediate result stays a small integer.                    *)

\* the uint32_t with value n, for 0 <= n < 2^31
U32(n) == [hi |-> n \div HALF, lo |-> n % HALF]

\* the full product of two 16-bit halves
Mul16(a, b) ==
    LET a1 == a \div 256  a0 == a % 256
        b1 == b \div 256  b0 == b % 256
        m == (a1 * b0 + a0 * b1) * 256 + a0 * b0
    IN [hi |-> a1 * b1 + m \div HALF, lo |-> m % HALF]

\* x * y in uint32_t arithmetic
MulU32(x, y) ==
    LET p == Mul16(x.lo, y.lo)
        cross == (Mul16(x.hi, y.lo).lo + Mul16(x.lo, y.hi).lo) % HALF
    IN [hi |-> (p.hi + cross) % HALF, lo |-> p.lo]

\* x > y for uint32_t
GtU32(x, y) == x.hi > y.hi \/ (x.hi = y.hi /\ x.lo > y.lo)

\* the value of x, for x < 2^31
ValU32(x) == x.hi * HALF + x.lo

\* timespec 0: a disarmed timer
ZeroTime == [tv_sec |-> 0, tv_nsec |-> 0]

\* Timer::makeTimespec(): tv_sec = micros / 1000000,
\* tv_nsec = (micros % 1000000) * 1000, for micros below 2^32
makeTimespec(micros) ==
    LET y == micros.hi * 256
        z == (y % MICROS) * 256 + micros.lo
    IN [tv_sec |-> (y \div MICROS) * 256 + z \div MICROS,
        tv_nsec |-> (z % MICROS) * 1000]

----------------------------------------------------------------------------
VARIABLES
    \* Application
    m_eventLoop, m_running, m_sysevent, m_iotHandle, m_iotConnected,
    m_iotScopeId, m_iotRetryInterval, m_iotMaxRetryInterval, m_useIot,
    m_keepalivePeriod, m_useKeepalive, m_watchdogPeriod, m_useWatchdog,
    m_oldTermAction, m_oldAlrmAction, g_application,
    \* Application::m_iotConnectTimer (Timer) and its Delegate
    m_timerFd, m_event, m_stub,
    \* platform: event loops, signal dispositions, alarm, power, time sync
    openLoops, nextLoop, stopReq, termDisp, alrmDisp, alarmPending,
    timeSync,
    \* platform: seconds since the last alarm() call, counted while an alarm
    \* is pending
    elapsed,
    \* platform: minutes the update is deferred for, 0 when it is not
    deferral,
    \* history: the hook the last update-event callback called and the
    \* argument it gave it
    hook,
    \* platform: timerfd setting and its event-loop registration
    it_value, timerRegLoop,
    \* platform: the timerfd's reload value, whether it holds an unread
    \* expiration, whether the event loop has taken its readiness up for
    \* dispatch
    it_interval, expired, queued,
    \* history: the last Timer call that succeeded and the invocations of the
    \* bound callback since
    lastOp, nCalls,
    \* platform: connection handles and their options
    liveHandles, nextHandle, cbHandles, policyCeil, keepaliveOpt,
    \* main flow: position, init()'s features argument, interrupted wait,
    \* run()'s local run_status with errno
    pc, features, intr, run_status,
    \* history: the teardown steps of the main flow's destroy() and of the
    \* last handler's destroy() that took any, the acquisitions of init(), the failed attempts since
    \* init(), whether setMaxRetryInterval() has stored a ceiling, whether
    \* the last init() that got past its guards returned true
    dlog, hlog, ilog, nFail, maxSet, initOk,
    \* a fixed-capacity vector over a caller's buffer, and the sequence a
    \* bounded deque holds after the same calls
    vec, ref

vars == <<m_eventLoop, m_running, m_sysevent, m_iotHandle, m_iotConnected,
          m_iotScopeId, m_iotRetryInterval, m_iotMaxRetryInterval, m_useIot,
          m_keepalivePeriod, m_useKeepalive, m_watchdogPeriod, m_useWatchdog,
          m_oldTermAction, m_oldAlrmAction, g_application,
          m_timerFd, m_event, m_stub,
          openLoops, nextLoop, stopReq, termDisp, alrmDisp, alarmPending,
          timeSync, elapsed, deferral, hook, it_value, timerRegLoop,
          it_interval, expired, queued, lastOp, nCalls,
          liveHandles, nextHandle, cbHandles, policyCeil, keepaliveOpt,
          pc, features, intr, run_status,
          dlog, hlog, ilog, nFail, maxSet, initOk, vec, ref>>

\* the current state as one record, for the operators that compute a call
Cur == [m_eventLoop |-> m_eventLoop, m_running |-> m_running,
        m_sysevent |-> m_sysevent, m_iotHandle |-> m_iotHandle,
        m_iotConnected |-> m_iotConnected, m_iotScopeId |-> m_iotScopeId,
        m_iotRetryInterval |-> m_iotRetryInterval,
        m_iotMaxRetryInterval |-> m_iotMaxRetryInterval,
        m_useIot |-> m_useIot, m_keepalivePeriod |-> m_keepalivePeriod,
        m_useKeepalive |-> m_useKeepalive,
        m_watchdogPeriod |-> m_watchdogPeriod, m_useWatchdog |-> m_useWatchdog,
        m_oldTermAction |-> m_oldTermAction, m_oldAlrmAction |-> m_oldAlrmAction,
        g_application |-> g_application,
        m_timerFd |-> m_timerFd, m_event |-> m_event, m_stub |-> m_stub,
        openLoops |-> openLoops, nextLoop |-> nextLoop, stopReq |-> stopReq,
        termDisp |-> termDisp, alrmDisp |-> alrmDisp,
        alarmPending |-> alarmPending, timeSync |-> timeSync,
        elapsed |-> elapsed, run_status |-> run_status,
        deferral |-> deferral, hook |-> hook,
        it_interval |-> it_interval, expired |-> expired, queued |-> queued,
        lastOp |-> lastOp, nCalls |-> nCalls,
        it_value |-> it_value, timerRegLoop |-> timerRegLoop,
        liveHandles |-> liveHandles, nextHandle |-> nextHandle,
        cbHandles |-> cbHandles, policyCeil |-> policyCeil,
        keepaliveOpt |-> keepaliveOpt,
        pc |-> pc, features |-> features, intr |-> intr,
        dlog |-> dlog, hlog |-> hlog, ilog |-> ilog, nFail |-> nFail,
        maxSet |-> maxSet, initOk |-> initOk, vec |-> vec, ref |-> ref]

\* the next state is the record s
Commit(s) ==
    /\ m_eventLoop' = s.m_eventLoop /\ m_running' = s.m_running
    /\ m_sysevent' = s.m_sysevent /\ m_iotHandle' = s.m_iotHandle
    /\ m_iotConnected' = s.m_iotConnected /\ m_iotScopeId' = s.m_iotScopeId
    /\ m_iotRetryInterval' = s.m_iotRetryInterval
    /\ m_iotMaxRetryInterval' = s.m_iotMaxRetryInterval
    /\ m_useIot' = s.m_useIot /\ m_keepalivePeriod' = s.m_keepalivePeriod
    /\ m_useKeepalive' = s.m_useKeepalive
    /\ m_watchdogPeriod' = s.m_watchdogPeriod /\ m_useWatchdog' = s.m_useWatchdog
    /\ m_oldTermAction' = s.m_oldTermAction /\ m_oldAlrmAction' = s.m_oldAlrmAction
    /\ g_application' = s.g_application
    /\ m_timerFd' = s.m_timerFd /\ m_event' = s.m_event /\ m_stub' = s.m_stub
    /\ openLoops' = s.openLoops /\ nextLoop' = s.nextLoop /\ stopReq' = s.stopReq
    /\ termDisp' = s.termDisp /\ alrmDisp' = s.alrmDisp
    /\ alarmPending' = s.alarmPending /\ timeSync' = s.timeSync
    /\ elapsed' = s.elapsed /\ run_status' = s.run_status
    /\ deferral' = s.deferral /\ hook' = s.hook
    /\ it_interval' = s.it_interval /\ expired' = s.expired
    /\ queued' = s.queued /\ lastOp' = s.lastOp /\ nCalls' = s.nCalls
    /\ it_value' = s.it_value /\ timerRegLoop' = s.timerRegLoop
    /\ liveHandles' = s.liveHandles /\ nextHandle' = s.nextHandle
    /\ cbHandles' = s.cbHandles /\ policyCeil' = s.policyCeil
    /\ keepaliveOpt' = s.keepaliveOpt
    /\ pc' = s.pc /\ features' = s.features /\ intr' = s.intr
    /\ dlog' = s.dlog /\ hlog' = s.hlog /\ ilog' = s.ilog
    /\ nFail' = s.nFail /\ maxSet' = s.maxSet /\ initOk' = s.initOk
    /\ vec' = s.vec /\ ref' = s.ref

\* the state after construction: Application() and Timer(), no handler
\* installed, no alarm pending
Init ==
    /\ m_eventLoop = NULL /\ m_running = FALSE /\ m_sysevent = FALSE
    /\ m_iotHandle = NULL /\ m_iotConnected = FALSE /\ m_iotScopeId = ""
    /\ m_iotRetryInterval = k_initialIotRetryInterval
    /\ m_iotMaxRetryInterval = k_defaultIotMaxRetryInterval
    /\ m_useIot = FALSE /\ m_keepalivePeriod = k_defaultKeepalivePeriod
    /\ m_useKeepalive = FALSE
    /\ m_watchdogPeriod = k_defaultWatchdogPeriod /\ m_useWatchdog = FALSE
    /\ m_oldTermAction = "zero" /\ m_oldAlrmAction = "zero"
    /\ g_application = NULL
    /\ m_timerFd = NoFd /\ m_event = FALSE /\ m_stub = FALSE
    /\ openLoops = {} /\ nextLoop = 0 /\ stopReq = FALSE
    /\ termDisp = "prior" /\ alrmDisp = "prior"
    /\ alarmPending = 0 /\ timeSync = FALSE
    /\ elapsed = 0 /\ run_status = "none"
    /\ deferral = 0 /\ hook = <<"none", 0>>
    /\ it_interval = ZeroTime /\ expired = FALSE /\ queued = FALSE
    /\ lastOp = "none" /\ nCalls = 0
    /\ it_value = ZeroTime /\ timerRegLoop = NULL
    /\ liveHandles = {} /\ nextHandle = 0 /\ cbHandles = {}
    /\ policyCeil = 0 /\ keepaliveOpt = 0
    /\ pc = "idle" /\ features = {} /\ intr = "none"
    /\ dlog = <<>> /\ hlog = <<>> /\ ilog = <<>>
    /\ nFail = 0 /\ maxSet = FALSE /\ initOk = FALSE
    /\ vec = NoVector /\ ref = <<>>

----------------------------------------------------------------------------
(* Results of a call: the state it leaves and how it ended.  "crash" is a  *)
(* memory fault inside a platform call handed an invalid handle.           *)

R(s, res) == [s |-> s, res |-> res]

\* a platform call on event loop el: on an open loop it succeeds or reports
\* an error as the platform decides (o); on a null or closed loop it cannot
\* succeed: it reports an error or faults
LoopCall(s, el, o) ==
    IF el \in s.openLoops
    THEN (IF o = "ok" THEN "ok" ELSE "fail")
    ELSE (IF o = "ok" THEN "crash" ELSE "fail")

\* getEventLoop(): the registered application's event loop, null without one
getEventLoop(s) ==
    IF s.g_application = NULL THEN NULL ELSE s.m_eventLoop

----------------------------------------------------------------------------
(* Timer *)

\* Timer::init(): timerfd_create() (o = "fail" when it fails), then
\* EventLoop_RegisterIo() on getEventLoop() (o = "fail2" when it fails)
Timer_init(s, o) ==
    IF s.m_timerFd >= 0 THEN R(s, "fail")
    ELSE IF o = "fail" THEN R([s EXCEPT !.m_timerFd = NoFd], "fail")
    ELSE LET el == getEventLoop(s)
             c == LoopCall(s, el, IF o = "fail2" THEN "fail" ELSE "ok")
             s1 == [s EXCEPT !.m_timerFd = TimerFd, !.it_value = ZeroTime,
                             !.it_interval = ZeroTime, !.expired = FALSE]
         IN IF c = "ok"
            THEN R([s1 EXCEPT !.m_event = TRUE, !.timerRegLoop = el], "ok")
            ELSE R([s1 EXCEPT !.m_event = FALSE], c)

\* Timer::startOneShot(): it_interval = 0, it_value = delay_us; a zero
\* it_value disarms the timerfd
Timer_startOneShot(s, delay_us, o) ==
    IF ~(s.m_timerFd >= 0) THEN R(s, "fail")
    ELSE IF o # "ok" THEN R(s, "fail")
    ELSE R([s EXCEPT !.it_value = makeTimespec(delay_us),
                     !.it_interval = ZeroTime, !.expired = FALSE], "ok")

\* Timer::startPeriodic(): it_interval = it_value = period_us
Timer_startPeriodic(s, period_us, o) ==
    IF ~(s.m_timerFd >= 0) THEN R(s, "fail")
    ELSE IF o # "ok" THEN R(s, "fail")
    ELSE R([s EXCEPT !.it_value = makeTimespec(period_us),
                     !.it_interval = makeTimespec(period_us),
                     !.expired = FALSE], "ok")

\* Timer::stop(): it_interval = it_value = 0; timerfd_settime() drops the
\* expirations not read yet
Timer_stop(s, o) ==
    IF ~(s.m_timerFd >= 0) THEN R(s, "fail")
    ELSE IF o # "ok" THEN R(s, "fail")
    ELSE R([s EXCEPT !.it_value = ZeroTime, !.it_interval = ZeroTime,
                     !.expired = FALSE], "ok")

\* Timer::destroy(): EventLoop_UnregisterIo() on getEventLoop() (o = "fail"
\* when it fails; without a registration it cannot succeed), then close()
\* (o = "fail2" when it fails)
Timer_destroy(s, o) ==
    IF ~(s.m_timerFd >= 0) THEN R(s, "fail")
    ELSE LET c == IF s.m_event
                  THEN LoopCall(s, getEventLoop(s),
                                IF o = "fail" THEN "fail" ELSE "ok")
                  ELSE IF o = "fail" THEN "fail" ELSE "crash"
             s1 == [s EXCEPT !.m_event = FALSE, !.timerRegLoop = NULL,
                             !.queued = FALSE]
         IN IF c # "ok" THEN R(s, c)
            ELSE IF o = "fail2" THEN R(s1, "fail")
            ELSE R([s1 EXCEPT !.m_timerFd = NoFd, !.it_value = ZeroTime,
                              !.it_interval = ZeroTime, !.expired = FALSE],
                   "ok")

\* a call through the Delegate that skips the check of the stub
Delegate_callUnchecked(s) ==
    [s EXCEPT !.nCalls = IF @ < MaxCalls THEN @ + 1 ELSE @]

\* Delegate::operator(): Assert(m_stub != nullptr), which ends the process,
\* then the call of the bound target
Delegate_call(s) ==
    IF ~s.m_stub THEN [s EXCEPT !.pc = "exited"]
    ELSE [s EXCEPT !.nCalls = IF @ < MaxCalls THEN @ + 1 ELSE @]

\* a Timer::callback() that does not look at what read() returned
Timer_callbackUnchecked(s) ==
    IF s.m_timerFd # TimerFd THEN [s EXCEPT !.pc = "exited"]
    ELSE Delegate_call([s EXCEPT !.expired = FALSE])

\* Timer::callback(): Assert(fd == timer->m_timerFd), the read() of the
\* non-blocking timerfd, which returns 8 bytes only when an expiration is
\* unread, then m_callback()
Timer_callback(s) ==
    IF s.m_timerFd # TimerFd THEN [s EXCEPT !.pc = "exited"]
    ELSE IF ~s.expired THEN s
    ELSE Delegate_call([s EXCEPT !.expired = FALSE])

----------------------------------------------------------------------------
(* Watchdog *)

\* a petWatchdog() that always arms the default period
petWatchdogDefault(s) ==
    IF s.m_eventLoop = NULL THEN R(s, "fail")
    ELSE IF ~s.m_useWatchdog THEN R(s, "fail")
    ELSE R([s EXCEPT !.alarmPending = k_defaultWatchdogPeriod,
                     !.elapsed = 0], "ok")

\* Application::petWatchdog(): alarm() replaces any pending alarm
petWatchdog(s) ==
    IF s.m_eventLoop = NULL THEN R(s, "fail")
    ELSE IF ~s.m_useWatchdog THEN R(s, "fail")
    ELSE R([s EXCEPT !.alarmPending = s.m_watchdogPeriod, !.elapsed = 0],
           "ok")

\* a setWatchdogPeriod() that takes any period
setWatchdogPeriodUnchecked(s, period_s) ==
    IF s.m_eventLoop = NULL THEN R(s, "fail")
    ELSE IF ~s.m_useWatchdog THEN R(s, "fail")
    ELSE petWatchdog([s EXCEPT !.m_watchdogPeriod = period_s])

\* Application::setWatchdogPeriod()
setWatchdogPeriod(s, period_s) ==
    IF s.m_eventLoop = NULL THEN R(s, "fail")
    ELSE IF ~s.m_useWatchdog THEN R(s, "fail")
    ELSE IF ~(period_s > 0) THEN R(s, "fail")
    ELSE petWatchdog([s EXCEPT !.m_watchdogPeriod = period_s])

----------------------------------------------------------------------------
(* Connection to Azure IoT Central *)

\* the delay handed to startOneShot(): m_iotRetryInterval * 1000000 in
\* uint32_t arithmetic, widened to uint64_t afterwards
RetryDelayUs(interval) == MulU32(U32(interval), U32(MICROS))

\* a backoff that doubles the interval instead of squaring it
NextRetryIntervalDoubling(interval, max) ==
    LET db == MulU32(U32(interval), U32(2))
    IN IF GtU32(db, U32(max)) THEN max ELSE ValU32(db)

\* m_iotRetryInterval *= m_iotRetryInterval (uint32_t), then the clamp
NextRetryInterval(interval, max) ==
    LET sq == MulU32(U32(interval), U32(interval))
    IN IF GtU32(sq, U32(max)) THEN max ELSE ValU32(sq)

\* a tryConnectIot() that installs the retry policy before it applies the
\* keepalive option
tryConnectIotPolicyFirst(s, f) ==
    IF f \in {"prov", "arm"}
    THEN LET t == Timer_startOneShot(s, RetryDelayUs(s.m_iotRetryInterval),
                                     IF f = "arm" THEN "fail" ELSE "ok")
         IN IF t.res # "ok" THEN R(t.s, "fail")
            ELSE R([t.s EXCEPT
                      !.m_iotRetryInterval =
                          NextRetryInterval(@, s.m_iotMaxRetryInterval),
                      !.nFail = IF @ < MaxFail THEN @ + 1 ELSE @], "ok")
    ELSE LET h == s.nextHandle + 1
             s1 == [s EXCEPT !.m_iotHandle = h, !.nextHandle = h,
                             !.liveHandles = @ \cup {h},
                             !.policyCeil = 0, !.keepaliveOpt = 0]
             s2 == [s1 EXCEPT !.policyCeil = s1.m_iotMaxRetryInterval]
             s3 == IF s2.m_useKeepalive
                   THEN [s2 EXCEPT !.keepaliveOpt = s2.m_keepalivePeriod]
                   ELSE s2
             s4 == [s3 EXCEPT !.cbHandles = @ \cup {h}]
         IN IF f = "policy" THEN R(s1, "fail")
            ELSE IF f = "keepalive" /\ s1.m_useKeepalive THEN R(s2, "fail")
            ELSE IF f = "statuscb" THEN R(s3, "fail")
            ELSE R(s4, "ok")

\* Application::tryConnectIot().  f names what fails: "prov" the
\* provisioning call (the retry timer is then armed), "arm" the provisioning
\* call and the arming, "keepalive" / "policy" / "statuscb" the option calls
\* on the new handle, "none" nothing
tryConnectIot(s, f) ==
    IF f \in {"prov", "arm"}
    THEN LET t == Timer_startOneShot(s, RetryDelayUs(s.m_iotRetryInterval),
                                     IF f = "arm" THEN "fail" ELSE "ok")
         IN IF t.res # "ok" THEN R(t.s, "fail")
            ELSE R([t.s EXCEPT
                      !.m_iotRetryInterval =
                          NextRetryInterval(@, s.m_iotMaxRetryInterval),
                      !.nFail = IF @ < MaxFail THEN @ + 1 ELSE @], "ok")
    ELSE LET h == s.nextHandle + 1
             s1 == [s EXCEPT !.m_iotHandle = h, !.nextHandle = h,
                             !.liveHandles = @ \cup {h},
                             !.policyCeil = 0, !.keepaliveOpt = 0]
             s2 == IF s1.m_useKeepalive
                   THEN [s1 EXCEPT !.keepaliveOpt = s1.m_keepalivePeriod]
                   ELSE s1
             s3 == [s2 EXCEPT !.policyCeil = s2.m_iotMaxRetryInterval]
             s4 == [s3 EXCEPT !.cbHandles = @ \cup {h}]
         IN IF f = "keepalive" /\ s1.m_useKeepalive THEN R(s1, "fail")
            ELSE IF f = "policy" THEN R(s2, "fail")
            ELSE IF f = "statuscb" THEN R(s3, "fail")
            ELSE R(s4, "ok")

\* what may fail in one tryConnectIot() call; the provisioning call succeeds
\* only while the platform has handles left to give
TryOutcomes(s) ==
    {"prov", "arm"}
    \cup (IF s.nextHandle < MaxHandles
          THEN {"none", "policy", "statuscb"}
               \cup (IF s.m_useKeepalive THEN {"keepalive"} ELSE {})
          ELSE {})

\* a retryConnectIot() that marks the session connected when its attempt
\* succeeds
retryConnectIotMarksConnected(s, f) ==
    LET r == tryConnectIot(s, f)
    IN IF r.res = "ok" /\ f = "none"
       THEN [r.s EXCEPT !.m_iotConnected = TRUE] ELSE r.s

\* Application::retryConnectIot(): AbortIfNot(tryConnectIot()) in a void
\* function only returns
retryConnectIot(s, f) == tryConnectIot(s, f).s

\* a status callback that schedules a new attempt when the session is lost
iotConnectionCallbackRearms(s, status) ==
    IF status = "AUTHENTICATED" THEN [s EXCEPT !.m_iotConnected = TRUE]
    ELSE Timer_startOneShot([s EXCEPT !.m_iotConnected = FALSE],
                            RetryDelayUs(s.m_iotRetryInterval), "ok").s

\* Application::iotConnectionCallback()
iotConnectionCallback(s, status) ==
    [s EXCEPT !.m_iotConnected = (status = "AUTHENTICATED")]

\* Application::setMaxRetryInterval()
setMaxRetryInterval(s, v, o) ==
    IF s.m_eventLoop = NULL THEN R(s, "fail")
    ELSE IF ~s.m_useIot THEN R(s, "fail")
    ELSE IF ~(v > 0) THEN R(s, "fail")
    ELSE LET s1 == [s EXCEPT !.m_iotMaxRetryInterval = v, !.maxSet = TRUE]
         IN IF s1.m_iotConnected
            THEN (IF s1.m_iotHandle \in s1.liveHandles /\ o = "ok"
                  THEN R([s1 EXCEPT !.policyCeil = v], "ok")
                  ELSE R(s1, "fail"))
            ELSE IF s1.m_iotRetryInterval > s1.m_iotMaxRetryInterval
                 THEN LET s2 == [s1 EXCEPT !.m_iotRetryInterval =
                                               s1.m_iotMaxRetryInterval]
                      IN Timer_startOneShot(
                             s2, RetryDelayUs(s2.m_iotRetryInterval), o)
                 ELSE R(s1, "ok")

\* Application::setKeepalivePeriod()
setKeepalivePeriod(s, period_s, o) ==
    IF s.m_eventLoop = NULL THEN R(s, "fail")
    ELSE IF ~s.m_useKeepalive THEN R(s, "fail")
    ELSE IF ~(period_s > 0) THEN R(s, "fail")
    ELSE LET s1 == [s EXCEPT !.m_keepalivePeriod = period_s]
         IN IF s1.m_iotConnected
            THEN (IF s1.m_iotHandle \in s1.liveHandles /\ o = "ok"
                  THEN R([s1 EXCEPT !.keepaliveOpt = period_s], "ok")
                  ELSE R(s1, "fail"))
            ELSE R(s1, "ok")

----------------------------------------------------------------------------
(* Application::destroy(), one platform call at a time.  A frame           *)
(* [p, lg] is the position of one execution of destroy() and the teardown  *)
(* steps it has performed; the main flow keeps its frame in pc and dlog,   *)
(* the signal handler runs a frame of its own to the end.                  *)

\* a destroy() that restores the termination disposition before it closes
\* the event loop
DestroyNextTermFirst(p) ==
    CASE p = "d_entry" -> "d_stop"
      [] p = "d_stop" -> "d_iot"
      [] p = "d_iot" -> "d_wd"
      [] p = "d_wd" -> "d_sys"
      [] p = "d_sys" -> "d_term"
      [] p = "d_term" -> "d_close"
      [] p = "d_close" -> "d_null"
      [] p = "d_null" -> "d_gapp"
      [] p = "d_gapp" -> "ret_true"

\* a destroy() that restores the alarm disposition before it stops the
\* retry timer
DestroyNextWdFirst(p) ==
    CASE p = "d_entry" -> "d_stop"
      [] p = "d_stop" -> "d_wd"
      [] p = "d_wd" -> "d_iot"
      [] p = "d_iot" -> "d_sys"
      [] p = "d_sys" -> "d_close"
      [] p = "d_close" -> "d_null"
      [] p = "d_null" -> "d_term"
      [] p = "d_term" -> "d_gapp"
      [] p = "d_gapp" -> "ret_true"

\* a destroy() that leaves the watchdog alone
DestroyNextNoWd(p) ==
    CASE p = "d_entry" -> "d_stop"
      [] p = "d_stop" -> "d_iot"
      [] p = "d_iot" -> "d_sys"
      [] p = "d_wd" -> "d_sys"
      [] p = "d_sys" -> "d_close"
      [] p = "d_close" -> "d_null"
      [] p = "d_null" -> "d_term"
      [] p = "d_term" -> "d_gapp"
      [] p = "d_gapp" -> "ret_true"

\* the statement after p in destroy()
DestroyNext(p) ==
    CASE p = "d_entry" -> "d_stop"
      [] p = "d_stop" -> "d_iot"
      [] p = "d_iot" -> "d_wd"
      [] p = "d_wd" -> "d_sys"
      [] p = "d_sys" -> "d_close"
      [] p = "d_close" -> "d_null"
      [] p = "d_null" -> "d_term"
      [] p = "d_term" -> "d_gapp"
      [] p = "d_gapp" -> "ret_true"

DestroyPcs == {"d_stop", "d_iot", "d_wd", "d_sys", "d_close", "d_null",
               "d_term", "d_gapp"}

\* the platform calls of destroy() that report errors
DestroyFailPoints == {"d_stop", "d_iot", "d_wd", "d_sys", "d_term"}

F(s, p, lg) == [s |-> s, p |-> p, lg |-> lg]

\* m_running = false
ClearRunning(s) == [s EXCEPT !.m_running = FALSE]

\* a destroy() that also marks the session as not connected
DestroyConnectionClearsFlag(s, lg) ==
    IF s.m_iotConnected
    THEN [s |-> [s EXCEPT !.liveHandles = @ \ {s.m_iotHandle},
                          !.cbHandles = @ \ {s.m_iotHandle},
                          !.policyCeil = 0, !.keepaliveOpt = 0,
                          !.m_iotHandle = NULL, !.m_iotConnected = FALSE],
          lg |-> Append(lg, "destroy_conn")]
    ELSE [s |-> s, lg |-> lg]

\* if (m_iotConnected) { IoTHubDeviceClient_LL_Destroy(m_iotHandle);
\*                       m_iotHandle = nullptr; }
DestroyConnection(s, lg) ==
    IF s.m_iotConnected
    THEN [s |-> [s EXCEPT !.liveHandles = @ \ {s.m_iotHandle},
                          !.cbHandles = @ \ {s.m_iotHandle},
                          !.policyCeil = 0, !.keepaliveOpt = 0,
                          !.m_iotHandle = NULL],
          lg |-> Append(lg, "destroy_conn")]
    ELSE [s |-> s, lg |-> lg]

\* a destroy() without the guard
GuardSkipped(s) == FALSE

\* AbortIfNot(m_eventLoop, false) at the top of destroy()
NotInitialized(s) == s.m_eventLoop = NULL

DestroyStep(s, fr, o) ==
    LET nx == DestroyNext(fr.p) IN
    CASE fr.p = "d_entry" ->
            IF NotInitialized(s) THEN F(s, "ret_false", <<>>)
            ELSE F(s, nx, <<>>)
      [] fr.p = "d_stop" ->
            LET s1 == ClearRunning(s)
                c == LoopCall(s1, s1.m_eventLoop, o)
            IN IF c = "ok"
               THEN F([s1 EXCEPT !.stopReq = TRUE], nx,
                      Append(fr.lg, "stop_loop"))
               ELSE F(s1, IF c = "crash" THEN "crash" ELSE "ret_false", fr.lg)
      [] fr.p = "d_iot" ->
            IF ~s.m_useIot THEN F(s, nx, fr.lg)
            ELSE LET t == Timer_stop(s, o)
                 IN IF t.res # "ok" THEN F(t.s, "ret_false", fr.lg)
                    ELSE LET d == DestroyConnection(
                                      t.s, Append(fr.lg, "stop_timer"))
                         IN F(d.s, nx, d.lg)
      [] fr.p = "d_wd" ->
            IF ~s.m_useWatchdog THEN F(s, nx, fr.lg)
            ELSE LET s1 == [s EXCEPT !.alarmPending = 0, !.elapsed = 0]
                     lg1 == Append(fr.lg, "cancel_alarm")
                 IN IF o # "ok" THEN F(s1, "ret_false", lg1)
                    ELSE F([s1 EXCEPT !.alrmDisp = s1.m_oldAlrmAction], nx,
                           Append(lg1, "restore_alrm"))
      [] fr.p = "d_sys" ->
            IF ~s.m_sysevent THEN F(s, nx, fr.lg)
            ELSE IF o # "ok" THEN F(s, "ret_false", fr.lg)
            ELSE F([s EXCEPT !.m_sysevent = FALSE], nx,
                   Append(fr.lg, "unregister"))
      [] fr.p = "d_close" ->
            \* EventLoop_Close() returns nothing: on a null or closed loop
            \* it does nothing or faults
            IF s.m_eventLoop \in s.openLoops
            THEN F([s EXCEPT !.openLoops = @ \ {s.m_eventLoop},
                             !.stopReq = FALSE], nx,
                   Append(fr.lg, "close_loop"))
            ELSE IF o = "ok" THEN F(s, "crash", fr.lg)
            ELSE F(s, nx, fr.lg)
      [] fr.p = "d_null" ->
            F([s EXCEPT !.m_eventLoop = NULL], nx, fr.lg)
      [] fr.p = "d_term" ->
            IF o # "ok" THEN F(s, "ret_false", fr.lg)
            ELSE F([s EXCEPT !.termDisp = s.m_oldTermAction], nx,
                   Append(fr.lg, "restore_term"))
      [] fr.p = "d_gapp" ->
            F([s EXCEPT !.g_application = NULL], nx,
              Append(fr.lg, "clear_gapp"))

\* destroy() run to its end from frame fr; the platform call at failAt, if
\* reached, reports an error
RECURSIVE DestroyRun(_, _, _)
DestroyRun(s, fr, failAt) ==
    IF fr.p \in {"ret_true", "ret_false", "crash"} THEN F(s, fr.p, fr.lg)
    ELSE LET r == DestroyStep(s, fr, IF fr.p = failAt THEN "fail" ELSE "ok")
         IN DestroyRun(r.s, [p |-> r.p, lg |-> r.lg], failAt)

\* the platform calls that a destroy() of s reaches and that may fail
FailPointsOf(s) ==
    IF NotInitialized(s) THEN {}
    ELSE {"d_stop", "d_term"}
         \cup (IF s.m_useIot THEN {"d_iot"} ELSE {})
         \cup (IF s.m_useWatchdog THEN {"d_wd"} ELSE {})
         \cup (IF s.m_sysevent THEN {"d_sys"} ELSE {})

\* how a call that ended with res leaves the main flow
ResOf(p) == IF p = "ret_true" THEN "ok" ELSE "fail"

----------------------------------------------------------------------------
(* Application::init() *)

Overloads == {"f", "f_wd", "f_az", "f_az_ka", "f_wd_az", "f_wd_az_ka"}
HasWd(ov) == ov \in {"f_wd", "f_wd_az", "f_wd_az_ka"}
HasAz(ov) == ov \in {"f_az", "f_az_ka", "f_wd_az", "f_wd_az_ka"}
HasKa(ov) == ov \in {"f_az_ka", "f_wd_az_ka"}

InitPcs == {"i_create", "i_gapp", "i_term", "i_sys", "i_time", "i_wd",
            "i_pet", "i_iot", "i_tinit", "i_conn"}

\* the call is about to return res ("ok" is true, "fail" is false) to the
\* caller of the main flow
Ret(s, op, res) ==
    IF op = "init"
    THEN (IF res = "ok" THEN [s EXCEPT !.pc = "init_ok", !.initOk = TRUE]
          ELSE [s EXCEPT !.pc = "init_fail"])
    ELSE IF op = "destroy"
    THEN [s EXCEPT !.pc = IF res = "ok" THEN "destroy_ok" ELSE "destroy_fail"]
    ELSE [s EXCEPT !.pc = IF res = "ok" THEN "run_ok" ELSE "run_fail"]

ReturnPcs == {"init_ok", "init_fail", "destroy_ok", "destroy_fail",
              "run_ok", "run_fail"}

Crash(s) == [s EXCEPT !.pc = "crashed"]

\* an init() without the guard
NeverInitialized(s) == FALSE

\* AbortIf(m_eventLoop, false) at the top of every overload
AlreadyInitialized(s) == s.m_eventLoop # NULL

\* init(features): AbortIf(g_application), AbortIf(m_eventLoop)
BaseEntry(s, f) ==
    IF s.g_application # NULL THEN Ret(s, "init", "fail")
    ELSE IF AlreadyInitialized(s) THEN Ret(s, "init", "fail")
    ELSE [s EXCEPT !.pc = "i_create", !.features = f, !.ilog = <<>>,
                   !.dlog = <<>>, !.hlog = <<>>, !.nFail = 0,
                   !.initOk = FALSE]

\* the overloads: guard, argument checks, argument stores, init(features)
InitEntry(s, ov, f, wd, az, ka) ==
    IF ov = "f" THEN BaseEntry(s, f)
    ELSE IF AlreadyInitialized(s) THEN Ret(s, "init", "fail")
    ELSE IF HasWd(ov) /\ ~(wd > 0) THEN Ret(s, "init", "fail")
    ELSE IF HasAz(ov) /\ az = NoScope THEN Ret(s, "init", "fail")
    ELSE IF HasKa(ov) /\ ~(ka > 0) THEN Ret(s, "init", "fail")
    ELSE BaseEntry(
            [s EXCEPT
               !.m_watchdogPeriod = IF HasWd(ov) THEN wd ELSE @,
               !.m_iotScopeId = IF HasAz(ov) THEN az ELSE @,
               !.m_keepalivePeriod = IF HasKa(ov) THEN ka ELSE @], f)

\* the outcomes the platform may give the call at p
Outcomes(s, p) ==
    IF p = "i_tinit" THEN {"ok", "fail", "fail2"}
    ELSE IF p = "i_conn" THEN TryOutcomes(s)
    ELSE {"ok", "fail"}

\* one statement of init(features) at s.pc
InitStep(s, o) ==
    LET p == s.pc
        fail == Ret(s, "init", "fail")
        go(s1, q) == [s1 EXCEPT !.pc = q]
    IN
    CASE p = "i_create" ->
            IF o # "ok" THEN Ret([s EXCEPT !.m_eventLoop = NULL],
                                 "init", "fail")
            ELSE go([s EXCEPT !.m_eventLoop = s.nextLoop + 1,
                              !.nextLoop = s.nextLoop + 1,
                              !.openLoops = @ \cup {s.nextLoop + 1},
                              !.stopReq = FALSE,
                              !.ilog = Append(@, "loop")], "i_gapp")
      [] p = "i_gapp" ->
            go([s EXCEPT !.g_application = THIS,
                         !.ilog = Append(@, "gapp")], "i_term")
      [] p = "i_term" ->
            IF o # "ok" THEN fail
            ELSE go([s EXCEPT !.m_oldTermAction = s.termDisp,
                              !.termDisp = "lib",
                              !.ilog = Append(@, "term")], "i_sys")
      [] p = "i_sys" ->
            IF ~isSet(s.features, "UpdateNotification") THEN go(s, "i_time")
            ELSE LET c == LoopCall(s, s.m_eventLoop, o)
                 IN IF c = "ok"
                    THEN go([s EXCEPT !.m_sysevent = TRUE,
                                      !.ilog = Append(@, "sysevent")],
                            "i_time")
                    ELSE IF c = "crash" THEN Crash(s)
                    ELSE Ret([s EXCEPT !.m_sysevent = FALSE],
                             "init", "fail")
      [] p = "i_time" ->
            IF ~isSet(s.features, "TimeSync") THEN go(s, "i_wd")
            ELSE IF o # "ok" THEN fail
            ELSE go([s EXCEPT !.timeSync = TRUE], "i_wd")
      [] p = "i_wd" ->
            LET s1 == [s EXCEPT
                         !.m_useWatchdog = isSet(s.features, "Watchdog")]
            IN IF ~s1.m_useWatchdog THEN go(s1, "i_iot")
               ELSE IF o # "ok" THEN Ret(s1, "init", "fail")
               ELSE go([s1 EXCEPT !.m_oldAlrmAction = s1.alrmDisp,
                                  !.alrmDisp = "lib",
                                  !.ilog = Append(@, "alrm")], "i_pet")
      [] p = "i_pet" ->
            LET r == petWatchdog(s)
            IN IF r.res = "ok" THEN go(r.s, "i_iot")
               ELSE Ret(r.s, "init", "fail")
      [] p = "i_iot" ->
            LET s1 == [s EXCEPT
                         !.m_useIot = isSet(s.features, "IoTCentral"),
                         !.m_useKeepalive = isSet(s.features, "Keepalive")]
            IN IF s1.m_useIot THEN go(s1, "i_tinit")
               ELSE Ret(s1, "init", "ok")
      [] p = "i_tinit" ->
            LET r == Timer_init(s, o)
            IN IF r.res = "ok"
               THEN go([r.s EXCEPT !.ilog = Append(@, "iot")], "i_conn")
               ELSE IF r.res = "crash" THEN Crash(r.s)
               ELSE Ret(r.s, "init", "fail")
      [] p = "i_conn" ->
            LET r == tryConnectIot([s EXCEPT !.m_stub = TRUE], o)
            IN Ret(r.s, "init", r.res)

----------------------------------------------------------------------------
(* The main flow: init(), run() and destroy() called by the program         *)

Alive == pc \notin {"crashed", "rebooted", "exited", "powered_down"}

\* the program calls one of the overloads drawn from ovs, with features
\* drawn from fss
InitCall(ovs, fss) ==
    /\ pc = "idle"
    /\ nextLoop < MaxLoops
    /\ \E ov \in ovs, f \in fss :
         \E wd \in (IF HasWd(ov) THEN WatchdogPeriods ELSE {0}),
            az \in (IF HasAz(ov) THEN ScopeIds ELSE {NoScope}),
            ka \in (IF HasKa(ov) THEN KeepalivePeriods ELSE {0}) :
           Commit(InitEntry(Cur, ov, f, wd, az, ka))

InitAdvance ==
    /\ pc \in InitPcs
    /\ \E o \in Outcomes(Cur, pc) : Commit(InitStep(Cur, o))

\* the main flow's destroy() frame after one of its statements
MainDestroy(r) ==
    IF r.p = "crash" THEN Crash([r.s EXCEPT !.dlog = r.lg])
    ELSE IF r.p \in {"ret_true", "ret_false"}
    THEN Ret([r.s EXCEPT !.dlog = r.lg], "destroy", ResOf(r.p))
    ELSE [r.s EXCEPT !.pc = r.p, !.dlog = r.lg]

DestroyCall ==
    /\ pc = "idle"
    /\ Commit(MainDestroy(DestroyStep(Cur, [p |-> "d_entry", lg |-> <<>>], "ok")))

DestroyAdvance ==
    /\ pc \in DestroyPcs
    /\ \E o \in (IF pc \in DestroyFailPoints \cup {"d_close"}
                 THEN {"ok", "fail"} ELSE {"ok"}) :
         Commit(MainDestroy(DestroyStep(Cur, [p |-> pc, lg |-> dlog], o)))

\* run(): AbortIfNot(m_eventLoop, false)
RunCall ==
    /\ pc = "idle"
    /\ Commit(IF m_eventLoop = NULL THEN Ret(Cur, "run", "fail")
              ELSE [Cur EXCEPT !.pc = "r_set"])

\* m_running = true
RunSet ==
    /\ pc = "r_set"
    /\ Commit([Cur EXCEPT !.m_running = TRUE, !.pc = "r_test"])

\* while (m_running)
RunTest ==
    /\ pc = "r_test"
    /\ Commit(IF m_running THEN [Cur EXCEPT !.pc = "r_enter"]
              ELSE Ret(Cur, "run", "ok"))

\* a run() that gives up on an interrupted wait as well
RunCheckAnyFailure(s) ==
    IF s.run_status \in {"error", "eintr"} THEN Ret(s, "run", "fail")
    ELSE [s EXCEPT !.pc = "r_test", !.run_status = "none"]

\* if (status == EventLoop_Run_Failed && errno != EINTR) AbortErrno(-1, false)
\* with status "ok" for a wait that did not fail, "eintr" for
\* EventLoop_Run_Failed with EINTR, "error" for it with another errno; the
\* local ends with the loop body
RunCheck(s) ==
    IF s.run_status = "error" THEN Ret(s, "run", "fail")
    ELSE [s EXCEPT !.pc = "r_test", !.run_status = "none"]

\* EventLoop_Run(m_eventLoop, -1, false) is entered: on an open loop it
\* returns at once if a stop was requested and blocks otherwise; "r_badwait"
\* is the call working on a null or closed loop
RunEnter ==
    /\ pc = "r_enter"
    /\ Commit(IF m_eventLoop \notin openLoops
              THEN [Cur EXCEPT !.pc = "r_badwait"]
              ELSE IF stopReq
              THEN RunCheck([Cur EXCEPT !.stopReq = FALSE, !.run_status = "ok"])
              ELSE [Cur EXCEPT !.pc = "wait",
                               !.intr = IF @ = "alrm" THEN "none" ELSE @])

\* the blocked wait returns: after EventLoop_Stop(), or with
\* EventLoop_Run_Failed and EINTR after a signal handler ran (the loop goes
\* on), or with another errno as the platform decides (run() returns false)
WaitReturn ==
    /\ pc = "wait"
    /\ m_eventLoop \in openLoops
    /\ Commit(RunCheck([Cur EXCEPT
                 !.stopReq = FALSE,
                 !.run_status = IF stopReq THEN "ok"
                            ELSE IF intr # "none" THEN "eintr"
                            ELSE "error"]))

\* the wait goes on in a loop that a signal handler closed meanwhile
WaitResume ==
    /\ pc \in {"wait", "dispatch"}
    /\ m_eventLoop \notin openLoops
    /\ Commit([Cur EXCEPT !.pc = "r_badwait"])

\* EventLoop_Run() working on a null or closed loop: it reports EINTR, or
\* another error, or faults
BadWait ==
    /\ pc = "r_badwait"
    /\ \E o \in {"eintr", "fail", "crash"} :
         Commit(IF o = "crash" THEN Crash(Cur)
                ELSE RunCheck([Cur EXCEPT
                        !.run_status = IF o = "eintr" THEN "eintr" ELSE "error"]))

\* the call returns to the program
Return ==
    /\ pc \in ReturnPcs
    /\ Commit([Cur EXCEPT !.pc = "idle", !.intr = "none", !.run_status = "none"])

----------------------------------------------------------------------------
(* Callbacks dispatched by the event loop while run() waits *)

\* Timer::callback() of the retry timer: the expired one-shot timer is
\* disarmed, the delegate runs retryConnectIot()
TimerFire ==
    /\ pc = "wait"
    /\ m_eventLoop \in openLoops
    /\ timerRegLoop = m_eventLoop
    /\ it_value # ZeroTime
    /\ \E f \in TryOutcomes(Cur) :
         Commit([retryConnectIot([Cur EXCEPT !.it_value = ZeroTime], f)
                    EXCEPT !.pc = "dispatch"])

\* the connection reports its status
StatusCallback ==
    /\ pc = "wait"
    /\ m_eventLoop \in openLoops
    /\ m_iotHandle \in cbHandles
    /\ \E st \in {"AUTHENTICATED", "UNAUTHENTICATED"} :
         Commit([iotConnectionCallback(Cur, st) EXCEPT !.pc = "dispatch"])

\* the callback returns into the event loop, which goes back to waiting
DispatchReturn ==
    /\ pc = "dispatch"
    /\ m_eventLoop \in openLoops
    /\ Commit([Cur EXCEPT !.pc = "wait"])

----------------------------------------------------------------------------
(* Signal handlers *)

\* Application::systemReboot(): the reboot request ends the process when
\* the platform accepts it
systemReboot(s, o) ==
    IF o = "ok" THEN [s EXCEPT !.pc = "rebooted"] ELSE s

\* what the platform may report about an update: the event, its status, the
\* kind of update and the longest deferral in minutes
SysEvents == {"UpdateReadyForInstall", "UpdateStarted"}
SysStatuses == {"Pending", "Final", "Deferred", "Complete"}
UpdateTypes == {"App", "System"}
MaxDeferrals == {10, 1440}

\* Application::notifySystemUpdatePending(): the default returns true
notifySystemUpdatePending(s, max_deferral) ==
    [s EXCEPT !.hook = <<"notifySystemUpdatePending", max_deferral>>]

\* Application::notifyAppUpdatePending(): the default returns true
notifyAppUpdatePending(s, max_deferral) ==
    [s EXCEPT !.hook = <<"notifyAppUpdatePending", max_deferral>>]

\* Application::notifyAppUpdateCompleted(): the default is systemReboot()
notifyAppUpdateCompleted(s, o) ==
    systemReboot([s EXCEPT !.hook = <<"notifyAppUpdateCompleted", 0>>], o)

\* a callback that treats every completed update alike
syseventCallbackAnyComplete(s, event, state, update, o, oHook) ==
    IF event # "UpdateReadyForInstall" THEN [s EXCEPT !.pc = "exited"]
    ELSE IF o # "ok" THEN s
    ELSE CASE state = "Pending" ->
                 IF update.update_type = "System"
                 THEN notifySystemUpdatePending(s, update.max_deferral)
                 ELSE notifyAppUpdatePending(s, update.max_deferral)
           [] state = "Complete" -> notifyAppUpdateCompleted(s, oHook)
           [] OTHER -> s

\* Application::syseventCallback(): Assert on the event,
\* SysEvent_Info_GetUpdateData() with outcome o, then the switch on the
\* status
syseventCallback(s, event, state, update, o, oHook) ==
    IF event # "UpdateReadyForInstall" THEN [s EXCEPT !.pc = "exited"]
    ELSE IF o # "ok" THEN s
    ELSE LET isSystemUpdate == update.update_type = "System"
         IN CASE state = "Pending" ->
                    IF isSystemUpdate
                    THEN notifySystemUpdatePending(s, update.max_deferral)
                    ELSE notifyAppUpdatePending(s, update.max_deferral)
              [] state = "Complete" ->
                    IF ~isSystemUpdate THEN notifyAppUpdateCompleted(s, oHook)
                    ELSE s
              [] OTHER -> s

\* the event loop delivers the event init() registered for
SysEventCallback ==
    /\ pc = "wait"
    /\ m_eventLoop \in openLoops
    /\ m_sysevent
    /\ \E state \in SysStatuses, t \in UpdateTypes, d \in MaxDeferrals,
          o \in {"ok", "fail"}, oHook \in {"ok", "fail"} :
         LET r == syseventCallback(
                     [Cur EXCEPT !.pc = "dispatch", !.hook = <<"none", 0>>],
                     "UpdateReadyForInstall", state,
                     [update_type |-> t, max_deferral |-> d], o, oHook)
         IN Commit(r)

\* signalHandler(SIGTERM) on top of the main flow: Assert(g_application),
\* then destroy() to its end
SigTerm ==
    /\ Alive
    /\ termDisp = "lib"
    /\ \E failAt \in FailPointsOf(Cur) \cup {"none"} :
         Commit(IF g_application = NULL THEN [Cur EXCEPT !.pc = "exited"]
                ELSE LET r == DestroyRun(Cur, [p |-> "d_entry", lg |-> <<>>],
                                         failAt)
                         s1 == [r.s EXCEPT
                                  !.hlog = IF r.lg = <<>> THEN @ ELSE r.lg,
                                  !.intr = IF pc \in {"wait", "dispatch"}
                                           THEN "term" ELSE @]
                     IN IF r.p = "crash" THEN Crash(s1) ELSE s1)

\* a handler that lets the alarm pass
AlarmHandlerIgnores(s, o) ==
    IF s.g_application = NULL THEN [s EXCEPT !.pc = "exited"]
    ELSE [s EXCEPT !.alarmPending = 0]

\* the pending alarm expires and signalHandler(SIGALRM) runs on top of the
\* main flow: Assert(g_application), then systemReboot(); a handler that
\* returns into a blocked wait interrupts it
AlarmHandler(s, o) ==
    IF s.g_application = NULL THEN [s EXCEPT !.pc = "exited"]
    ELSE systemReboot(
             [s EXCEPT !.alarmPending = 0,
                       !.intr = IF s.pc = "wait" /\ @ = "none"
                                THEN "alrm" ELSE @], o)

\* signalHandler(SIGALRM), time not counted: the pending alarm expires at
\* some moment
SigAlrm ==
    /\ Alive
    /\ alrmDisp = "lib"
    /\ alarmPending > 0
    /\ \E o \in {"ok", "fail"} : Commit(AlarmHandler(Cur, o))

\* SIGALRM under the disposition that was in place before init(): the
\* alarm is consumed; the process ends (o = "ok") or goes on, as the owner of
\* that disposition decides
PriorAlarmAction(s, o) ==
    IF o = "ok" THEN [s EXCEPT !.alarmPending = 0, !.pc = "exited"]
    ELSE [s EXCEPT !.alarmPending = 0]

\* time passes while an alarm is pending, up to the moment it is due
Tick ==
    /\ Alive
    /\ alarmPending > 0
    /\ \E d \in TickSteps :
         /\ elapsed + d <= alarmPending
         /\ Commit([Cur EXCEPT !.elapsed = @ + d])

\* SIGALRM, time counted: the alarm is delivered when the seconds given to
\* alarm() have passed
AlarmExpiry ==
    /\ Alive
    /\ alarmPending > 0
    /\ elapsed = alarmPending
    /\ \E o \in {"ok", "fail"} :
         Commit(IF alrmDisp = "lib" THEN AlarmHandler(Cur, o)
                ELSE PriorAlarmAction(Cur, o))

----------------------------------------------------------------------------
(* Calls the program makes between init() and destroy(), from the main flow *)
(* or from a callback                                                       *)

AtCallSite == pc \in {"idle", "wait"}

\* the minutes handed to blockUpdate()
DeferralMinutes == {0, 10}

\* the seconds handed to systemSuspend()
SuspendSeconds == {0, 5}

\* Application::blockUpdate(): SysEvent_DeferEvent()
blockUpdate(s, duration_m, o) ==
    IF s.m_eventLoop = NULL THEN R(s, "fail")
    ELSE IF o # "ok" THEN R(s, "fail")
    ELSE R([s EXCEPT !.deferral = duration_m], "ok")

\* Application::allowUpdate(): SysEvent_ResumeEvent()
allowUpdate(s, o) ==
    IF s.m_eventLoop = NULL THEN R(s, "fail")
    ELSE IF o # "ok" THEN R(s, "fail")
    ELSE R([s EXCEPT !.deferral = 0], "ok")

\* Application::systemSuspend(): the power-down request ends the process
\* when the platform accepts it
systemSuspend(s, duration_s, o) ==
    IF o = "ok" THEN [s EXCEPT !.pc = "powered_down"] ELSE s

BlockUpdate ==
    /\ AtCallSite
    /\ \E v \in DeferralMinutes, o \in {"ok", "fail"} :
         Commit(blockUpdate(Cur, v, o).s)

AllowUpdate ==
    /\ AtCallSite
    /\ \E o \in {"ok", "fail"} : Commit(allowUpdate(Cur, o).s)

SystemReboot ==
    /\ AtCallSite
    /\ \E o \in {"ok", "fail"} : Commit(systemReboot(Cur, o))

SystemSuspend ==
    /\ AtCallSite
    /\ \E v \in SuspendSeconds, o \in {"ok", "fail"} :
         Commit(systemSuspend(Cur, v, o))

PetWatchdog ==
    /\ AtCallSite
    /\ Commit(petWatchdog(Cur).s)

SetWatchdogPeriod ==
    /\ AtCallSite
    /\ \E v \in NewWatchdogPeriods : Commit(setWatchdogPeriod(Cur, v).s)

SetMaxRetryInterval ==
    /\ AtCallSite
    /\ \E s \in {setMaxRetryInterval(Cur, v, o).s :
                     v \in MaxRetryIntervals, o \in {"ok", "fail"}} :
         Commit(s)

SetKeepalivePeriod ==
    /\ AtCallSite
    /\ \E s \in {setKeepalivePeriod(Cur, v, o).s :
                     v \in KeepalivePeriods, o \in {"ok", "fail"}} :
         Commit(s)

----------------------------------------------------------------------------
(* Specifications.  Each one is the program under one kind of use.          *)

\* the life cycle under signals: init(features), run(), destroy(), the
\* callbacks of the event loop and the two signal handlers
LifeFeatures == {{"UpdateNotification"}, {"Watchdog", "IoTCentral"}}

NextLife ==
    \/ InitCall({"f"}, LifeFeatures) \/ InitAdvance
    \/ DestroyCall \/ DestroyAdvance
    \/ RunCall \/ RunSet \/ RunTest \/ RunEnter
    \/ WaitReturn \/ WaitResume \/ BadWait \/ Return
    \/ TimerFire \/ StatusCallback \/ DispatchReturn
    \/ SigTerm \/ SigAlrm

SpecLife == Init /\ [][NextLife]_vars

\* the connection and its retry timer, no signal delivered: init(features)
\* with IoTCentral, run(), the callbacks, setMaxRetryInterval(), destroy()
ConnFeatures == {{"IoTCentral"}}

NextConn ==
    \/ InitCall({"f"}, ConnFeatures) \/ InitAdvance
    \/ DestroyCall \/ DestroyAdvance
    \/ RunCall \/ RunSet \/ RunTest \/ RunEnter
    \/ WaitReturn \/ Return
    \/ TimerFire \/ StatusCallback \/ DispatchReturn
    \/ SetMaxRetryInterval

SpecConn == Init /\ [][NextConn]_vars

\* a session with keepalive, no signal delivered: init(features) with
\* IoTCentral and Keepalive, run(), the callbacks, the two setters, destroy()
SessionFeatures == {{"IoTCentral", "Keepalive"}}

NextSession ==
    \/ InitCall({"f"}, SessionFeatures) \/ InitAdvance
    \/ DestroyCall \/ DestroyAdvance
    \/ RunCall \/ RunSet \/ RunTest \/ RunEnter
    \/ WaitReturn \/ Return
    \/ TimerFire \/ StatusCallback \/ DispatchReturn
    \/ SetMaxRetryInterval \/ SetKeepalivePeriod

SpecSession == Init /\ [][NextSession]_vars

\* the watchdog against the clock: init(features) and init(features,
\* watchdog_period_s) with Watchdog, petWatchdog(), setWatchdogPeriod(),
\* destroy(), the passing of time and the expiry of the alarm
WatchFeatures == {{"Watchdog"}}

NextWatch ==
    \/ InitCall({"f", "f_wd"}, WatchFeatures) \/ InitAdvance
    \/ DestroyCall \/ DestroyAdvance
    \/ Return
    \/ PetWatchdog \/ SetWatchdogPeriod
    \/ Tick \/ AlarmExpiry

SpecWatch == Init /\ [][NextWatch]_vars

\* the runtime controls called between the calls of the life cycle:
\* init(features) with no feature or with all of them, the eight controls,
\* destroy()
ControlFeatures == {{}, FeatureNames}

NextControls ==
    \/ InitCall({"f"}, ControlFeatures) \/ InitAdvance
    \/ DestroyCall \/ DestroyAdvance
    \/ Return
    \/ PetWatchdog \/ SetWatchdogPeriod
    \/ SetMaxRetryInterval \/ SetKeepalivePeriod
    \/ BlockUpdate \/ AllowUpdate
    \/ SystemReboot \/ SystemSuspend

SpecControls == Init /\ [][NextControls]_vars

\* the delays and periods handed to a Timer, in microseconds
TimerDelays == {U32(0), U32(1500000)}
TimerPeriods == {U32(0), U32(1000000)}

\* a Timer call of the program leaves its mark
Called(r, op) ==
    IF r.res = "crash" THEN Crash(r.s)
    ELSE IF r.res = "ok" THEN [r.s EXCEPT !.lastOp = op, !.nCalls = 0]
    ELSE r.s

TimerInit ==
    /\ AtCallSite
    /\ \E o \in {"ok", "fail", "fail2"} : Commit(Called(Timer_init(Cur, o), "init"))

TimerDestroy ==
    /\ AtCallSite
    /\ \E o \in {"ok", "fail", "fail2"} :
         Commit(Called(Timer_destroy(Cur, o), "destroy"))

\* Timer::connect(): binds the callback
TimerConnect ==
    /\ AtCallSite
    /\ Commit([Cur EXCEPT !.m_stub = TRUE])

TimerStartOneShot ==
    /\ AtCallSite
    /\ \E d \in TimerDelays, o \in {"ok", "fail"} :
         Commit(Called(Timer_startOneShot(Cur, d, o), "oneshot"))

TimerStartPeriodic ==
    /\ AtCallSite
    /\ \E d \in TimerPeriods, o \in {"ok", "fail"} :
         Commit(Called(Timer_startPeriodic(Cur, d, o), "periodic"))

TimerStop ==
    /\ AtCallSite
    /\ \E o \in {"ok", "fail"} : Commit(Called(Timer_stop(Cur, o), "stop"))

\* the armed timerfd expires: it becomes readable, and is armed again only
\* with a reload value
TimerExpire ==
    /\ Alive
    /\ m_timerFd >= 0
    /\ it_value # ZeroTime
    /\ Commit([Cur EXCEPT !.expired = TRUE, !.it_value = it_interval])

\* the running event loop finds the registered timerfd readable
LoopCollect ==
    /\ pc = "wait"
    /\ m_eventLoop \in openLoops
    /\ m_event /\ timerRegLoop = m_eventLoop
    /\ expired /\ ~queued
    /\ Commit([Cur EXCEPT !.queued = TRUE])

\* the event loop calls Timer::callback() for the readiness it took up
TimerCallback ==
    /\ pc = "wait"
    /\ m_eventLoop \in openLoops
    /\ queued
    /\ Commit(Timer_callback([Cur EXCEPT !.queued = FALSE,
                                         !.pc = "dispatch"]))

\* a Timer of the program on the loop of an application initialized with
\* no feature: init(), connect(), the start calls, stop(), destroy(), the
\* expiry and its dispatch by run()
TimerFeatures == {{}}

NextTimer ==
    \/ InitCall({"f"}, TimerFeatures) \/ InitAdvance
    \/ RunCall \/ RunSet \/ RunTest \/ RunEnter
    \/ WaitReturn \/ Return \/ DispatchReturn
    \/ TimerInit \/ TimerDestroy \/ TimerConnect
    \/ TimerStartOneShot \/ TimerStartPeriodic \/ TimerStop
    \/ TimerExpire \/ LoopCollect \/ TimerCallback

SpecTimer == Init /\ [][NextTimer]_vars

\* the update notifications: init(features) with UpdateNotification, run(),
\* the update events, the deferral and its end, destroy()
UpdateFeatures == {{"UpdateNotification"}}

NextUpdate ==
    \/ InitCall({"f"}, UpdateFeatures) \/ InitAdvance
    \/ DestroyCall \/ DestroyAdvance
    \/ RunCall \/ RunSet \/ RunTest \/ RunEnter
    \/ WaitReturn \/ Return
    \/ SysEventCallback \/ DispatchReturn
    \/ BlockUpdate \/ AllowUpdate

SpecUpdate == Init /\ [][NextUpdate]_vars

\* every init() overload, and destroy()
InitFeatures == {{}, {"TimeSync", "Watchdog"},
                 {"UpdateNotification", "IoTCentral", "Keepalive"}}

NextInit ==
    \/ InitCall(Overloads, InitFeatures) \/ InitAdvance
    \/ DestroyCall \/ DestroyAdvance
    \/ Return

SpecInit == Init /\ [][NextInit]_vars

----------------------------------------------------------------------------
(* vector<T>: a fixed-capacity vector over a buffer of the caller.  The    *)
(* storage m_array is a tuple, the C++ offset k being its index k + 1.     *)

\* m_array[offset]
Elem(v, offset) == v.m_array[offset + 1]

\* m_array[offset] = elem
Store(v, offset, elem) == [v EXCEPT !.m_array[offset + 1] = elem]

\* vector(buffer, size): size counts elements; the buffer's contents are
\* whatever the caller left in it
vector(buffer, size) ==
    [m_array |-> buffer, m_capacity |-> size, m_fixedCapacity |-> TRUE,
     m_count |-> 0, m_first |-> 0, m_last |-> 0]

capacity(v) == v.m_capacity
size(v) == v.m_count
empty(v) == size(v) = 0
full(v) == size(v) = capacity(v)

\* an element read that failed leaves the caller's variable alone
NoElem == 0

clear(v) ==
    IF v.m_array = NoArray THEN R(v, "fail")
    ELSE R([v EXCEPT !.m_first = 0, !.m_last = 0, !.m_count = 0], "ok")

front(v) ==
    IF v.m_array = NoArray \/ empty(v) THEN [res |-> "fail", elem |-> NoElem]
    ELSE [res |-> "ok", elem |-> Elem(v, v.m_first)]

back(v) ==
    IF v.m_array = NoArray \/ empty(v) THEN [res |-> "fail", elem |-> NoElem]
    ELSE [res |-> "ok", elem |-> Elem(v, v.m_last)]

at(v, position) ==
    IF v.m_array = NoArray \/ position >= size(v)
    THEN [res |-> "fail", elem |-> NoElem]
    ELSE [res |-> "ok",
          elem |-> Elem(v, (v.m_first + position) % v.m_capacity)]

\* grow() is Assert(false)
push_front(v, elem) ==
    IF v.m_array = NoArray THEN R(v, "fail")
    ELSE IF full(v) /\ ~v.m_fixedCapacity THEN R(v, "crash")
    ELSE IF full(v) THEN R(v, "fail")
    ELSE LET v1 == IF empty(v) THEN v
                   ELSE [v EXCEPT !.m_first = IF @ # 0 THEN @ - 1
                                               ELSE v.m_capacity - 1]
         IN R([Store(v1, v1.m_first, elem) EXCEPT !.m_count = @ + 1], "ok")

push_back(v, elem) ==
    IF v.m_array = NoArray THEN R(v, "fail")
    ELSE IF full(v) /\ ~v.m_fixedCapacity THEN R(v, "crash")
    ELSE IF full(v) THEN R(v, "fail")
    ELSE LET v1 == IF empty(v) THEN v
                   ELSE [v EXCEPT !.m_last = IF @ + 1 = v.m_capacity THEN 0
                                              ELSE @ + 1]
         IN R([Store(v1, v1.m_last, elem) EXCEPT !.m_count = @ + 1], "ok")

pop_front(v) ==
    IF front(v).res # "ok" THEN R(v, "fail")
    ELSE R([v EXCEPT !.m_first = IF @ + 1 = v.m_capacity THEN 0 ELSE @ + 1,
                     !.m_count = @ - 1], "ok")

pop_back(v) ==
    IF back(v).res # "ok" THEN R(v, "fail")
    ELSE R([v EXCEPT !.m_last = IF @ # 0 THEN @ - 1 ELSE v.m_capacity - 1,
                     !.m_count = @ - 1], "ok")

\* the program constructs the vector over a buffer of its own
VectorConstruct ==
    /\ vec = NoVector
    /\ \E n \in 1..MaxCapacity :
         \E buffer \in [1..n -> Elems] :
           Commit([Cur EXCEPT !.vec = vector(buffer, n), !.ref = <<>>])

\* the calls of the program on the vector; ref follows as a bounded deque of
\* the same capacity does
VectorPushFront ==
    /\ vec # NoVector
    /\ \E e \in Elems :
         Commit([Cur EXCEPT
                   !.vec = push_front(vec, e).s,
                   !.ref = IF Len(@) < vec.m_capacity THEN <<e>> \o @
                           ELSE @])

VectorPushBack ==
    /\ vec # NoVector
    /\ \E e \in Elems :
         Commit([Cur EXCEPT
                   !.vec = push_back(vec, e).s,
                   !.ref = IF Len(@) < vec.m_capacity THEN Append(@, e)
                           ELSE @])

VectorPopFront ==
    /\ vec # NoVector
    /\ Commit([Cur EXCEPT !.vec = pop_front(vec).s,
                          !.ref = IF @ # <<>> THEN Tail(@) ELSE @])

VectorPopBack ==
    /\ vec # NoVector
    /\ Commit([Cur EXCEPT
                 !.vec = pop_back(vec).s,
                 !.ref = IF @ # <<>> THEN SubSeq(@, 1, Len(@) - 1) ELSE @])

VectorClear ==
    /\ vec # NoVector
    /\ Commit([Cur EXCEPT !.vec = clear(vec).s, !.ref = <<>>])

NextVector ==
    \/ VectorConstruct
    \/ VectorPushFront \/ VectorPushBack
    \/ VectorPopFront \/ VectorPopBack
    \/ VectorClear

SpecVector == Init /\ [][NextVector]_vars

----------------------------------------------------------------------------

(* Properties *)

Range(seq) == {seq[i] : i \in 1..Len(seq)}

Reverse(seq) == [i \in 1..Len(seq) |-> seq[Len(seq) + 1 - i]]

Seconds(n) == [tv_sec |-> n, tv_nsec |-> 0]

\* C1: at whatever point SIGTERM interrupts run(), the event-loop wait is
\* never entered or resumed on an event loop that destroy() has closed or
\* set to null.
C1_NoWaitOnClosedLoop == initOk => pc # "r_badwait"

\* C2: once SIGTERM was delivered to an initialized application blocked in
\* run(), run() neither returns failure nor faults: it can only return
\* success.
C2_TermEndsRunWithSuccess ==
    (initOk /\ intr = "term") => pc \notin {"run_fail", "crashed"}

\* the delay armed by the n-th consecutive failed attempt since init()
ExpectedDelay(n) ==
    IF n = 1 THEN Seconds(10) ELSE IF n = 2 THEN Seconds(100) ELSE Seconds(120)

\* the first life of the application, the ceiling never set, no attempt has
\* produced a handle: every attempt so far has failed
OnlyFailuresFromDefaults == nextLoop = 1 /\ ~maxSet /\ nextHandle = 0

\* C3: from the defaults (interval 10, ceiling 120) the consecutive failed
\* attempts arm the retry timer with 10, 100 and 120 seconds, and every
\* further one with 120 seconds.
C3_BackoffSequence ==
    (OnlyFailuresFromDefaults /\ nFail >= 1 /\ it_value # ZeroTime)
        => it_value = ExpectedDelay(nFail)

C3_Witness ==
    /\ OnlyFailuresFromDefaults
    /\ nFail = 4
    /\ it_value = Seconds(120)
    /\ pc = "dispatch"

\* C4: in every reachable state retryIntervalSeconds <= maxRetryIntervalSeconds.
C4_IntervalBelowCeiling == m_iotRetryInterval <= m_iotMaxRetryInterval

\* the armed delay is longer than v seconds
DelayAbove(v) ==
    it_value.tv_sec > v \/ (it_value.tv_sec = v /\ it_value.tv_nsec > 0)

\* C5: setMaxRetryInterval(v) with a retry scheduled and v below the
\* scheduled delay makes the interval v and re-arms the timer at v seconds;
\* with v not below the current interval it leaves the pending timer as it is.
C5_CeilingReArms ==
    (pc \in {"idle", "wait"} /\ m_eventLoop # NULL /\ m_useIot
     /\ ~m_iotConnected /\ it_value # ZeroTime)
        => \A v \in MaxRetryIntervals \ {0} :
             LET r == setMaxRetryInterval(Cur, v, "ok")
             IN /\ DelayAbove(v) =>
                     /\ r.res = "ok"
                     /\ r.s.m_iotRetryInterval = v
                     /\ r.s.it_value = Seconds(v)
                /\ v >= m_iotRetryInterval => r.s.it_value = it_value

\* C6: after destroy() has returned success no handle of a successful
\* attempt is left undestroyed and the stored handle is null.
C6_NoHandleAfterDestroy ==
    (pc = "destroy_ok" /\ initOk /\ liveHandles = cbHandles)
        => (liveHandles = {} /\ m_iotHandle = NULL)

\* the teardown steps in the order of the documentation
TeardownOrder ==
    <<"stop_loop", "stop_timer", "destroy_conn", "cancel_alarm",
      "restore_alrm", "unregister", "close_loop", "restore_term",
      "clear_gapp">>

Pos(step) == CHOOSE i \in 1..Len(TeardownOrder) : TeardownOrder[i] = step

InTeardownOrder(lg) ==
    \A i, j \in 1..Len(lg) : i < j => Pos(lg[i]) < Pos(lg[j])

\* the steps a destroy() has to perform: those of the enabled features
\* (which connections it destroys is the matter of C6)
StepDue(step) ==
    CASE step = "stop_timer" -> m_useIot
      [] step = "destroy_conn" -> FALSE
      [] step \in {"cancel_alarm", "restore_alrm"} -> m_useWatchdog
      [] step = "unregister" -> "sysevent" \in Range(ilog)
      [] OTHER -> TRUE

NotConnection(step) == step # "destroy_conn"

Acquisition(step) ==
    CASE step = "stop_timer" -> "iot"
      [] step = "restore_alrm" -> "alrm"
      [] step = "unregister" -> "sysevent"
      [] step = "close_loop" -> "loop"
      [] step = "restore_term" -> "term"
      [] step = "clear_gapp" -> "gapp"

IsRelease(step) ==
    step \in {"stop_timer", "restore_alrm", "unregister", "close_loop",
              "restore_term", "clear_gapp"}

\* what the teardown steps lg released, in the order of release
Releases(lg) ==
    LET rl == SelectSeq(lg, IsRelease)
    IN [i \in 1..Len(rl) |-> Acquisition(rl[i])]

\* destroy() has returned success on an application whose init() had
\* returned success, and no signal handler took teardown steps of its own
DestroyedWhatInitAcquired ==
    /\ pc = "destroy_ok"
    /\ hlog = <<>>
    /\ initOk

C9_TimerTornDown ==
    (pc = "destroy_ok" /\ initOk /\ isSet(features, "IoTCentral"))
        => /\ m_timerFd = NoFd
           /\ ~m_event
           /\ timerRegLoop = NULL

\* C10: every init() overload called on an initialized application returns
\* false and changes nothing.
C10_DoubleInitFails ==
    (pc = "idle" /\ initOk /\ m_eventLoop # NULL)
        => \A ov \in Overloads, f \in FeatureSets, wd \in WatchdogPeriods,
              az \in ScopeIds, ka \in KeepalivePeriods :
             InitEntry(Cur, ov, f, wd, az, ka) = Ret(Cur, "init", "fail")

\* init() has just refused a call on an application whose init(features)
\* had returned true
C10_Witness ==
    /\ pc = "init_fail"
    /\ initOk
    /\ ilog = <<"loop", "gapp", "term">>
    /\ m_eventLoop \in openLoops
    /\ g_application = THIS

\* what destroy() may touch besides the event loop handle
TeardownView(s) ==
    <<s.termDisp, s.alrmDisp, s.alarmPending, s.liveHandles, s.cbHandles,
      s.m_iotHandle, s.g_application, s.m_running, s.stopReq, s.it_value,
      s.m_sysevent, s.openLoops>>

\* C11: destroy() on an application whose event loop handle is null returns
\* false and performs no teardown action, whatever the platform would
\* answer: no signal disposition changes, no alarm is cancelled, no
\* connection is destroyed, the back-reference stays as it is.
C11_DestroyWithoutLoop ==
    m_eventLoop = NULL =>
        \A failAt \in DestroyFailPoints \cup {"none"} :
            LET r == DestroyRun(Cur, [p |-> "d_entry", lg |-> <<>>], failAt)
            IN /\ r.p = "ret_false"
               /\ r.lg = <<>>
               /\ TeardownView(r.s) = TeardownView(Cur)
               /\ r.s = Cur

\* destroy() has just returned false on an application that was initialized
\* and destroyed before
C11_Witness ==
    /\ pc = "destroy_fail" /\ m_eventLoop = NULL /\ dlog = <<>>
    /\ initOk /\ nextLoop > 0 /\ g_application = NULL

\* C12: run() returns true only with the running flag cleared, and returns
\* false only after a wait that failed with an error other than an
\* interruption (never after an interrupted one), or, on an application
\* without event loop, before any wait.
C12_RunReturns ==
    /\ pc = "run_ok" => ~m_running /\ run_status = "none"
    /\ pc = "run_fail" =>
          \/ run_status = "error"
          \/ run_status = "none" /\ m_eventLoop = NULL

\* an interrupted wait has returned into run() with the running flag set:
\* the loop goes on
C12_Witness ==
    /\ pc = "r_test" /\ intr = "alrm" /\ m_running
    /\ initOk /\ m_eventLoop \in openLoops

\* C13: after a successful init() with IoTCentral, run() never keeps
\* waiting with no error reported while the retry timer is disarmed and no
\* connection reports its status: a failed attempt of the retry-timer
\* callback ends run() or the process.
C13_RetryFailureSignalled ==
    (/\ initOk /\ m_useIot /\ m_running
     /\ pc = "wait" /\ m_eventLoop \in openLoops)
    => (it_value # ZeroTime \/ m_iotHandle \in cbHandles)

\* the keepalive option a connection has once tryConnectIot() is past it
KeepaliveApplied(s) == IF s.m_useKeepalive THEN s.m_keepalivePeriod ELSE 0

\* the options of the connection made by an attempt that left state t
Options(t) ==
    [keepalive |-> t.keepaliveOpt, policy |-> t.policyCeil,
     statuscb |-> t.m_iotHandle \in t.cbHandles, timer |-> t.it_value]

FirstAttemptFailed ==
    /\ features = {"Watchdog", "IoTCentral"} /\ nextLoop = 1 /\ initOk
    /\ nFail = 1 /\ nextHandle = 0
    /\ hlog = <<>> /\ m_eventLoop \in openLoops

\* the state after the retry timer has expired and the attempt made by its
\* callback has succeeded
RetrySucceeded == retryConnectIot([Cur EXCEPT !.it_value = ZeroTime], "none")

\* init() returns true with the retry timer armed once at 10 s and the
\* connected flag false
InitLeavesRetryAt10 ==
    (FirstAttemptFailed /\ pc = "init_ok") =>
        /\ it_value = Seconds(k_initialIotRetryInterval)
        /\ timerRegLoop = m_eventLoop
        /\ ~m_iotConnected

\* the retry timer of the scenario is about to expire in run()
RetryDue ==
    /\ FirstAttemptFailed /\ pc = "wait"
    /\ it_value = Seconds(k_initialIotRetryInterval)

\* C15 as stated: in the end-to-end scenario init() leaves one retry armed
\* at 10 s and the connected flag false, and as soon as the attempt made at
\* the expiry of that timer succeeds the connected flag is true, the retry
\* policy is applied and no retry timer is armed.
C15_ConnectedOnSuccess ==
    /\ InitLeavesRetryAt10
    /\ RetryDue =>
          /\ RetrySucceeded.m_iotConnected
          /\ RetrySucceeded.policyCeil = k_defaultIotMaxRetryInterval
          /\ RetrySucceeded.it_value = ZeroTime

\* C15 amended: in the end-to-end scenario init() leaves one retry armed at
\* 10 s and the connected flag false; the attempt that succeeds at the
\* expiry of that timer applies the retry policy, registers the status
\* callback and leaves no retry timer armed, with the connected flag still
\* false; the flag is true once the status callback reports authenticated.
C15_ConnectedOnceAuthenticated ==
    /\ InitLeavesRetryAt10
    /\ RetryDue =>
          /\ ~RetrySucceeded.m_iotConnected
          /\ RetrySucceeded.m_iotHandle \in RetrySucceeded.cbHandles
          /\ RetrySucceeded.policyCeil = k_defaultIotMaxRetryInterval
          /\ RetrySucceeded.it_value = ZeroTime
          /\ iotConnectionCallback(RetrySucceeded,
                                   "AUTHENTICATED").m_iotConnected

\* the scenario has run to its end: one failed attempt, the retry
\* succeeded, the status callback has reported authenticated
C15_Witness ==
    /\ features = {"Watchdog", "IoTCentral"} /\ nextLoop = 1 /\ initOk
    /\ nFail = 1 /\ nextHandle = 1 /\ pc = "dispatch"
    /\ m_iotConnected /\ m_iotHandle \in cbHandles
    /\ policyCeil = k_defaultIotMaxRetryInterval /\ it_value = ZeroTime

\* C16: when the status callback reports a status other than authenticated
\* for a connected session, the connected flag becomes false and nothing
\* else changes: no timer is armed, no attempt is made, the handle and the
\* retry interval stay as they are.
C16_DisconnectOnlyClearsFlag ==
    (pc = "wait" /\ m_iotConnected /\ m_iotHandle \in cbHandles) =>
        iotConnectionCallback(Cur, "UNAUTHENTICATED") =
            [Cur EXCEPT !.m_iotConnected = FALSE]

\* the callback has just reported the loss of a session that was connected:
\* the connection made by init() had taken a new ceiling from
\* setMaxRetryInterval()
C16_Witness ==
    /\ pc = "dispatch" /\ ~m_iotConnected /\ m_iotHandle \in cbHandles
    /\ nextLoop = 1 /\ nextHandle = 1 /\ nFail = 0
    /\ policyCeil = 50 /\ m_iotMaxRetryInterval = 50
    /\ it_value = ZeroTime /\ m_iotRetryInterval = k_initialIotRetryInterval

\* the step is the status callback dispatched by the event loop
IsStatusCallback ==
    /\ pc = "wait" /\ pc' = "dispatch"
    /\ m_iotHandle \in cbHandles
    /\ it_value' = it_value /\ nextHandle' = nextHandle

\* C17: the connected flag is changed by no step other than the status
\* callback: init(), tryConnectIot(), the retry-timer callback,
\* setMaxRetryInterval(), setKeepalivePeriod() and destroy() leave it as it
\* is.
C17_OnlyCallbackWrites ==
    [][m_iotConnected' # m_iotConnected => IsStatusCallback]_vars

\* destroy() has returned true on a session that is still marked connected
C17_Witness ==
    /\ pc = "destroy_ok" /\ m_iotConnected /\ m_eventLoop = NULL
    /\ "destroy_conn" \in Range(dlog)

\* periods to hand to setWatchdogPeriod(), up to the largest one the model
\* can count
SomePeriods == WatchdogPeriods \cup NewWatchdogPeriods \cup {1, 2147483647}

\* C18: on an application initialized with Watchdog, setWatchdogPeriod(p)
\* with p > 0 returns true, stores p as the period and leaves one pending
\* alarm due p seconds after the call; setWatchdogPeriod(0) returns false
\* and changes neither the period nor the pending alarm.
C18_SetWatchdogPeriod ==
    (pc = "idle" /\ m_eventLoop # NULL /\ m_useWatchdog) =>
        \A p \in SomePeriods :
            LET r == setWatchdogPeriod(Cur, p)
            IN IF p > 0
               THEN /\ r.res = "ok"
                    /\ r.s = [Cur EXCEPT !.m_watchdogPeriod = p,
                                         !.alarmPending = p, !.elapsed = 0]
               ELSE r.res = "fail" /\ r.s = Cur

\* in its first life the application has taken the period 45 from
\* setWatchdogPeriod(), with an alarm due 45 s later
C18_Witness ==
    /\ pc = "idle" /\ initOk /\ nextLoop = 1 /\ m_eventLoop \in openLoops
    /\ m_watchdogPeriod = 45 /\ alarmPending = 45 /\ elapsed = 0

\* while the application is initialized with Watchdog, the pending alarm is
\* the one set by the last alarm() call and is due m_watchdogPeriod seconds
\* after that call
AlarmFollowsPeriod ==
    (m_eventLoop # NULL /\ m_useWatchdog /\ alarmPending > 0) =>
        alarmPending = m_watchdogPeriod /\ elapsed <= alarmPending

\* init() with Watchdog has returned true and no time has passed since it
\* armed the alarm
InitJustArmed ==
    pc = "init_ok" /\ "Watchdog" \in features /\ elapsed = 0

\* C19 as stated: while the application is initialized with Watchdog at
\* most one alarm is pending, due watchdogPeriodSeconds after the most
\* recent of init(), petWatchdog() and setWatchdogPeriod(); init() returns
\* with the alarm armed using the period given to the overload taking one,
\* or the default period of 60 s.
C19_ArmedAtGivenOrDefault ==
    /\ AlarmFollowsPeriod
    /\ InitJustArmed =>
          /\ alarmPending = m_watchdogPeriod /\ alrmDisp = "lib"
          /\ m_watchdogPeriod \in
                (WatchdogPeriods \ {0}) \cup {k_defaultWatchdogPeriod}

\* C19 amended: while the application is initialized with Watchdog at most
\* one alarm is pending, due watchdogPeriodSeconds after the most recent of
\* init(), petWatchdog() and setWatchdogPeriod(); init() returns with the
\* alarm armed using the stored period, which the overload taking a period
\* sets to its argument and which init(features) and the steps of init()
\* leave as it was before the call.
C19_ArmedAtStoredPeriod ==
    /\ AlarmFollowsPeriod
    /\ InitJustArmed =>
          alarmPending = m_watchdogPeriod /\ alrmDisp = "lib"
    /\ pc = "idle" =>
          \A f \in WatchFeatures :
             /\ InitEntry(Cur, "f", f, 0, NoScope, 0).m_watchdogPeriod
                   = m_watchdogPeriod
             /\ \A wd \in WatchdogPeriods :
                   LET t == InitEntry(Cur, "f_wd", f, wd, NoScope, 0)
                   IN t.m_watchdogPeriod =
                         IF t.pc = "i_create" THEN wd
                         ELSE IF m_eventLoop = NULL /\ wd > 0 THEN wd
                         ELSE m_watchdogPeriod
    /\ pc \in InitPcs =>
          \A o \in Outcomes(Cur, pc) :
             InitStep(Cur, o).m_watchdogPeriod = m_watchdogPeriod

\* init(features) has returned true in the second life of the application
\* with the alarm armed at the period that setWatchdogPeriod() stored in the
\* first
C19_Witness ==
    /\ InitJustArmed /\ nextLoop = 2 /\ m_eventLoop \in openLoops
    /\ m_watchdogPeriod = 45 /\ alarmPending = 45 /\ alrmDisp = "lib"

\* C20: on an application initialized with Watchdog, when the period has
\* passed since the last alarm() call with no petWatchdog(),
\* setWatchdogPeriod() or destroy() in between, the alarm handler is in
\* place and issues the reboot request; an alarm has expired only after a
\* full period without such a call.
C20_WatchdogTimeout ==
    /\ (Alive /\ initOk /\ alarmPending > 0 /\ elapsed = alarmPending) =>
          /\ alrmDisp = "lib" /\ g_application # NULL
          /\ AlarmHandler(Cur, "ok").pc = "rebooted"
    /\ (initOk /\ alarmPending = 0 /\ elapsed > 0) =>
          elapsed = m_watchdogPeriod
    /\ (initOk /\ pc = "rebooted") =>
          alarmPending = 0 /\ elapsed = m_watchdogPeriod

\* the reboot request was issued 45 s after setWatchdogPeriod(45)
C20_Witness ==
    /\ pc = "rebooted" /\ initOk /\ m_watchdogPeriod = 45 /\ elapsed = 45
    /\ alarmPending = 0

\* pending alarms of another owner that destroy() may meet
OtherAlarms == {0, 30}

\* C21: after a successful destroy() of an application initialized with
\* Watchdog no alarm is pending, the alarm disposition is the one saved at
\* init() and a SIGALRM handler run would not reach the reboot request;
\* destroy() of an application initialized without Watchdog leaves the
\* pending alarm and the alarm disposition as they are.
C21_WatchdogGoneAfterDestroy ==
    /\ (pc = "destroy_ok" /\ initOk /\ "Watchdog" \in features) =>
          /\ alarmPending = 0
          /\ alrmDisp = m_oldAlrmAction
          /\ \A o \in {"ok", "fail"} : AlarmHandler(Cur, o).pc # "rebooted"
    /\ (pc = "idle" /\ initOk /\ m_eventLoop # NULL
        /\ "Watchdog" \notin features) =>
          \A a \in OtherAlarms, failAt \in DestroyFailPoints \cup {"none"} :
             LET s == [Cur EXCEPT !.alarmPending = a]
                 r == DestroyRun(s, [p |-> "d_entry", lg |-> <<>>], failAt)
             IN /\ r.s.alarmPending = a
                /\ r.s.alrmDisp = alrmDisp
                /\ r.s.m_oldAlrmAction = m_oldAlrmAction

\* destroy() has returned true on an application that init() had armed the
\* watchdog for
C21_Witness ==
    /\ pc = "destroy_ok" /\ initOk /\ "Watchdog" \in features
    /\ alarmPending = 0 /\ alrmDisp = "prior"
    /\ "cancel_alarm" \in Range(dlog) /\ "restore_alrm" \in Range(dlog)

\* a runtime control returned false and left everything as it was
Refused(r) == r.res = "fail" /\ r.s = Cur

\* C22: on an application that is not initialized, before init() or after
\* destroy(), each of the eight runtime controls returns false and issues
\* no platform request, whatever the platform would answer.
C22_ControlsNeedInit ==
    (pc = "idle" /\ m_eventLoop = NULL) =>
        \A o \in {"ok", "fail"} :
           /\ Refused(petWatchdog(Cur))
           /\ \A v \in NewWatchdogPeriods : Refused(setWatchdogPeriod(Cur, v))
           /\ \A v \in MaxRetryIntervals :
                 Refused(setMaxRetryInterval(Cur, v, o))
           /\ \A v \in KeepalivePeriods :
                 Refused(setKeepalivePeriod(Cur, v, o))
           /\ \A v \in DeferralMinutes : Refused(blockUpdate(Cur, v, o))
           /\ Refused(allowUpdate(Cur, o))
           /\ systemReboot(Cur, o) = Cur
           /\ \A v \in SuspendSeconds : systemSuspend(Cur, v, o) = Cur

\* C23: on an initialized application each feature-governed control returns
\* false and changes nothing when its governing feature was not enabled at
\* init(): petWatchdog and setWatchdogPeriod without Watchdog,
\* setMaxRetryInterval without IoTCentral, setKeepalivePeriod without
\* Keepalive, blockUpdate and allowUpdate without UpdateNotification.
C23_ControlsNeedFeature ==
    (pc = "idle" /\ initOk /\ m_eventLoop # NULL) =>
        \A o \in {"ok", "fail"} :
           /\ "Watchdog" \notin features =>
                 /\ Refused(petWatchdog(Cur))
                 /\ \A v \in NewWatchdogPeriods :
                       Refused(setWatchdogPeriod(Cur, v))
           /\ "IoTCentral" \notin features =>
                 \A v \in MaxRetryIntervals :
                    Refused(setMaxRetryInterval(Cur, v, o))
           /\ "Keepalive" \notin features =>
                 \A v \in KeepalivePeriods :
                    Refused(setKeepalivePeriod(Cur, v, o))
           /\ "UpdateNotification" \notin features =>
                 /\ \A v \in DeferralMinutes : Refused(blockUpdate(Cur, v, o))
                 /\ Refused(allowUpdate(Cur, o))

\* init(features) called with every subset of the feature flags
AllFeatureSets == SUBSET FeatureNames

NextFeatures ==
    \/ InitCall({"f"}, AllFeatureSets) \/ InitAdvance
    \/ Return

SpecFeatures == Init /\ [][NextFeatures]_vars

\* the statement of init() at the current position, the platform willing
Stepped == InitStep(Cur, "ok")

\* C24: whatever subset of the flags init() is given, a successful init()
\* has created the event loop and installed the termination handler, has
\* registered for update notifications iff UpdateNotification, enabled time
\* synchronisation iff TimeSync, installed the alarm handler and armed the
\* alarm iff Watchdog, created the retry timer and made the first connection
\* attempt iff IoTCentral; each step is taken or skipped on its own flag.
C24_FeatureSteps ==
    /\ pc = "init_ok" =>
          /\ {"loop", "gapp", "term"} \subseteq Range(ilog)
          /\ m_eventLoop \in openLoops /\ termDisp = "lib"
          /\ "sysevent" \in Range(ilog) <=> "UpdateNotification" \in features
          /\ "TimeSync" \in features => timeSync
          /\ "alrm" \in Range(ilog) <=> "Watchdog" \in features
          /\ "Watchdog" \in features =>
                alrmDisp = "lib" /\ alarmPending = m_watchdogPeriod
          /\ "iot" \in Range(ilog) <=> "IoTCentral" \in features
          /\ "IoTCentral" \in features =>
                /\ m_timerFd # NoFd /\ m_stub
                /\ m_iotHandle \in cbHandles \/ it_value # ZeroTime
    /\ pc = "i_sys" => (Stepped.m_sysevent # m_sysevent
                        \/ Stepped.ilog # ilog)
                          = ("UpdateNotification" \in features)
    /\ pc = "i_time" => (Stepped.timeSync /\ ~timeSync) =
                           ("TimeSync" \in features /\ ~timeSync)
    /\ pc = "i_wd" => (Stepped.pc = "i_pet") = ("Watchdog" \in features)
    /\ pc = "i_iot" => (Stepped.pc = "i_tinit") = ("IoTCentral" \in features)

C24_Witness ==
    /\ pc = "init_ok"
    /\ features = {"TimeSync", "IoTCentral"}
    /\ ilog = <<"loop", "gapp", "term", "iot">>
    /\ timeSync /\ alrmDisp = "prior" /\ ~m_sysevent
    /\ m_iotHandle \in cbHandles

\* C25: between the calls of init() and destroy(), the process-wide
\* back-reference is non-null only while the application it designates is
\* initialized, that is, has an event loop.
C25_BackReferenceInitialized ==
    (pc = "idle" /\ g_application # NULL) =>
        g_application = THIS /\ m_eventLoop # NULL

\* the hook an update event has to reach, and its argument
HookFor(state, update) ==
    IF state = "Pending" /\ update.update_type = "System"
    THEN <<"notifySystemUpdatePending", update.max_deferral>>
    ELSE IF state = "Pending"
    THEN <<"notifyAppUpdatePending", update.max_deferral>>
    ELSE IF state = "Complete" /\ update.update_type = "App"
    THEN <<"notifyAppUpdateCompleted", 0>>
    ELSE <<"none", 0>>

\* C26: the update-event callback calls exactly the hook of the event, or
\* none: notifySystemUpdatePending for a pending system update and
\* notifyAppUpdatePending for a pending application update, each with the
\* platform's maximum deferral, the completion hook, whose default requests
\* the reboot, for a completed application update, and no hook for a
\* completed system update or any other status.
C26_UpdateDispatch ==
    (pc = "wait" /\ m_eventLoop \in openLoops /\ m_sysevent) =>
        \A state \in SysStatuses, t \in UpdateTypes, d \in MaxDeferrals,
           oHook \in {"ok", "fail"} :
           LET update == [update_type |-> t, max_deferral |-> d]
               s == [Cur EXCEPT !.hook = <<"none", 0>>]
               r == syseventCallback(s, "UpdateReadyForInstall", state,
                                     update, "ok", oHook)
           IN /\ r.hook = HookFor(state, update)
              /\ r.pc = IF r.hook[1] = "notifyAppUpdateCompleted"
                           /\ oHook = "ok"
                        THEN "rebooted" ELSE pc
              /\ [r EXCEPT !.hook = s.hook, !.pc = s.pc] = s
              /\ \A e \in SysEvents \ {"UpdateReadyForInstall"} :
                    syseventCallback(s, e, state, update, "ok", oHook).hook
                       = <<"none", 0>>

C26_Witness ==
    /\ pc = "rebooted"
    /\ hook = <<"notifyAppUpdateCompleted", 0>>
    /\ m_sysevent /\ m_eventLoop \in openLoops

\* C27: in every state of a Timer between its calls the OS timer descriptor
\* is valid exactly when the event-loop registration exists.
C27_FdIffRegistration ==
    AtCallSite => ((m_timerFd >= 0) <=> m_event)

\* the timer is neither armed for a shot nor for a period
Unarmed(s) == s.it_value = ZeroTime /\ s.it_interval = ZeroTime

\* C28: stop() on an initialized Timer succeeds whatever the timer is armed
\* for and leaves it unarmed, a second stop() changing nothing more; once
\* stop() has returned the bound callback is not invoked until a later start
\* call, not even for an expiry the event loop had taken up before.
C28_StopDisarms ==
    /\ (AtCallSite /\ m_timerFd >= 0) =>
          LET r == Timer_stop(Cur, "ok")
          IN /\ r.res = "ok"
             /\ Unarmed(r.s) /\ ~r.s.expired
             /\ Timer_stop(r.s, "ok") = r
             /\ Timer_callback(r.s).nCalls = nCalls
             /\ Timer_callback(r.s).pc = pc
    /\ lastOp = "stop" => Unarmed(Cur) /\ ~expired /\ nCalls = 0

C28_Witness ==
    /\ pc = "dispatch" /\ lastOp = "stop"
    /\ m_stub /\ m_event /\ nCalls = 0
    /\ Unarmed(Cur)

\* C29: after a startOneShot() that succeeded on an initialized Timer,
\* whatever the delay, the bound callback is invoked exactly once: until it
\* has been, the shot is still armed or its expiry still unread, and it is
\* never invoked a second time; after the invocation the timer is unarmed.
C29_OneShotFiresOnce ==
    (lastOp = "oneshot" /\ m_event /\ m_stub /\ Alive) =>
        /\ nCalls <= 1
        /\ nCalls = 0 => (it_value # ZeroTime \/ expired)
        /\ nCalls = 1 => (Unarmed(Cur) /\ ~expired)

\* C30: a callback slot that was never bound, when invoked, ends the process
\* without calling a target and without returning; a Timer that expires
\* before any connect() ends the process when its expiry is dispatched.
C30_UnboundCallExits ==
    /\ ~m_stub =>
          /\ Delegate_call(Cur) = [Cur EXCEPT !.pc = "exited"]
          /\ nCalls = 0
    /\ (~m_stub /\ pc = "wait" /\ queued /\ expired /\ m_timerFd = TimerFd) =>
          Timer_callback(Cur) = [Cur EXCEPT !.pc = "exited", !.expired = FALSE]

C30_Witness ==
    /\ pc = "exited" /\ ~m_stub
    /\ lastOp = "oneshot" /\ ~expired /\ ~queued /\ nCalls = 0
    /\ m_event /\ m_eventLoop \in openLoops

\* C31: whatever positive ceiling setMaxRetryInterval() has stored, the
\* retry interval is never 0 after any number of failed attempts: the
\* squaring never wraps to 0, so that every failed attempt arms a retry that
\* fires.
C31_IntervalNeverZero == m_iotRetryInterval > 0

\* C32: the delay that a failed attempt hands to the retry timer is the
\* retry interval times 1,000,000 microseconds exactly, and so is the delay
\* of the re-arming by setMaxRetryInterval(): the product does not wrap
\* before it is widened to the timer's 64-bit delay.
C32_DelayIsIntervalMicros ==
    (pc = "wait" /\ m_eventLoop # NULL /\ m_useIot /\ m_timerFd >= 0) =>
        /\ tryConnectIot(Cur, "prov").s.it_value = Seconds(m_iotRetryInterval)
        /\ \A v \in MaxRetryIntervals \ {0} :
              (~m_iotConnected /\ m_iotRetryInterval > v) =>
                 setMaxRetryInterval(Cur, v, "ok").s.it_value = Seconds(v)

\* C33: the retry timer is armed only while no connection handle is live,
\* so that no attempt is made over a live handle, and the only live handle
\* is the stored one: none was overwritten without being destroyed.
C33_NoRetryOverLiveHandle ==
    /\ it_value # ZeroTime => m_iotHandle \notin liveHandles
    /\ liveHandles \subseteq {m_iotHandle}

\* the delay a is longer than the delay b
Later(a, b) ==
    a.tv_sec > b.tv_sec \/ (a.tv_sec = b.tv_sec /\ a.tv_nsec > b.tv_nsec)

\* C34: setMaxRetryInterval() never postpones a pending retry: called with
\* the retry timer armed, it leaves it armed, and at a delay no longer than
\* the one it was armed with.
C34_NeverPostpones ==
    (pc \in {"idle", "wait"} /\ m_eventLoop # NULL /\ m_useIot
     /\ it_value # ZeroTime) =>
        \A v \in MaxRetryIntervals, o \in {"ok", "fail"} :
           LET r == setMaxRetryInterval(Cur, v, o).s
           IN r.it_value # ZeroTime /\ ~Later(r.it_value, it_value)

\* C35: in every state the connected flag is true only while the stored
\* connection handle is non-null and live.
C35_ConnectedHasHandle ==
    m_iotConnected => (m_iotHandle # NULL /\ m_iotHandle \in liveHandles)

\* C36: a destroy() of the main flow that the termination signal interrupts
\* goes on with an event loop that is still open, and the connection handle
\* is destroyed by the handler's destroy() or by the interrupted one, never
\* by both.
C36_ReleasedOnce ==
    /\ pc \in {"d_stop", "d_iot", "d_wd", "d_sys", "d_close"} =>
          m_eventLoop \in openLoops
    /\ ~("destroy_conn" \in Range(dlog) /\ "destroy_conn" \in Range(hlog))

\* the returns init(features) can reach from its statement at s.pc, over
\* every outcome the platform may give its calls
RECURSIVE InitResults(_)
InitResults(s) ==
    IF s.pc \in InitPcs
    THEN UNION {InitResults(InitStep(s, o)) : o \in Outcomes(s, s.pc)}
    ELSE {s.pc}

\* C37: when destroy() returns true on an application that init() had
\* initialized, the event loop handle, the back-reference and the retry
\* timer's descriptor are as constructed, and an init() with the same
\* features on the same object can return true.
C37_ReInitAfterDestroy ==
    (pc = "destroy_ok" /\ initOk) =>
        /\ m_eventLoop = NULL /\ g_application = NULL /\ m_timerFd = NoFd
        /\ "init_ok" \in InitResults(BaseEntry(Cur, features))

\* C38: an init() that got past its guards and returns false leaves the
\* application uninitialized: no event loop handle, no back-reference, the
\* termination and alarm dispositions of before the call, no alarm pending.
C38_FailedInitLeavesNothing ==
    (pc = "init_fail" /\ ~initOk) =>
        /\ m_eventLoop = NULL /\ g_application = NULL
        /\ termDisp = "prior" /\ alrmDisp = "prior"
        /\ alarmPending = 0

\* C39: whenever the library's handler is the disposition of SIGTERM or of
\* SIGALRM, the back-reference is non-null.
C39_HandlerHasBackReference ==
    (termDisp = "lib" \/ alrmDisp = "lib") => g_application # NULL

\* C40: the vector answers as a bounded deque that was given the same
\* calls: size(), front(), back() and at(i) are those of the reference
\* sequence, and a push on a full vector fails and changes nothing.
C40_VectorIsBoundedDeque ==
    vec # NoVector =>
       /\ size(vec) = Len(ref)
       /\ front(vec) = IF ref = <<>> THEN [res |-> "fail", elem |-> NoElem]
                       ELSE [res |-> "ok", elem |-> ref[1]]
       /\ back(vec) = IF ref = <<>> THEN [res |-> "fail", elem |-> NoElem]
                      ELSE [res |-> "ok", elem |-> ref[Len(ref)]]
       /\ \A i \in 0..(MaxCapacity - 1) :
             at(vec, i) = IF i >= Len(ref)
                          THEN [res |-> "fail", elem |-> NoElem]
                          ELSE [res |-> "ok", elem |-> ref[i + 1]]
       /\ full(vec) =>
             \A e \in Elems : /\ push_back(vec, e) = R(vec, "fail")
                              /\ push_front(vec, e) = R(vec, "fail")

====
